---- MODULE Spec2Model ----
(***************************************************************************)
(* Verification model of the desktop-pet core: PetStateMachine             *)
(* (src/pet/state_machine.py), DesktopPet (src/pet/window.py),             *)
(* MovementController (src/pet/movement.py), IdleController                *)
(* (src/pet/idle.py), the input handlers (src/pet/input.py) and            *)
(* PetInstanceManager (src/pet/instance_manager.py), wired as in           *)
(* src/main.py.                                                            *)
(*                                                                         *)
(* The specifications share the variables:                                 *)
(*   SpecSM        one PetStateMachine object driven by its own operations *)
(*   Spec          the instance manager with its registered pets           *)
(*   SpecCount     the operations that change the registry                 *)
(*   SpecSettings  the broadcast setters, with local move toggles          *)
(*   SpecBroadcast the broadcast setters and the instance count alone      *)
(*   SpecSetters   the seven broadcast setters, persistence and signals    *)
(*   SpecRegistry  register_pet / unregister_pet and the count operations  *)
(*   SpecTopmost   the stays-on-top policy                                 *)
(*   SpecDisplay   the display policy over what user32 reports             *)
(*   SpecShutdown  quit, with the two periodic tasks of the manager        *)
(*   SpecGeo       window geometry: collision resolution, screen clamping  *)
(*   SpecSMDefault a PetStateMachine constructed with its default values    *)
(*   SpecPet       one pet: mouse handlers, rest timers, move and follow    *)
(*   SpecIdle      SpecPet with the context-menu close of the pet           *)
(*   SpecMove      the autonomous movement tick of one pet                  *)
(*   SpecSpawn     raising the instance count next to a placed pet          *)
(*   SpecPolicy    the display policy while the user switches windows       *)
(*   SpecProbe     the display policy when a user32 call fails              *)
(*   SpecFollow    one pet following the cursor                             *)
(*   SpecShadow    the moves forced on a pet from outside its tick          *)
(*   SpecLocal     what the user does to one pet among two                  *)
(*   SpecTick      the tick of one pet in all its states                    *)
(*   SpecSpawnLoop on_set_instance_count one loop iteration at a time       *)
(*   SpecRest      SpecIdle with the rest-end timers firing                 *)
(***************************************************************************)
EXTENDS Integers, Sequences, FiniteSets, TLC

(***************************************************************************)
(* Program constants (src/pet/config.py).  Scale factors are floats in the *)
(* source; the model counts them in tenths, the step of the scale menu.    *)
(***************************************************************************)
INSTANCE_COUNT_MIN == 0
OPACITY_PERCENT_MIN == 0
OPACITY_PERCENT_MAX == 100
OPACITY_DEFAULT_PERCENT == 100
SCALE_MIN == 1
SCALE_MAX == 20
DISPLAY_MODE_ALWAYS_ON_TOP == "always_on_top"
DISPLAY_MODE_FULLSCREEN_HIDE == "fullscreen_hide"
DISPLAY_MODE_DESKTOP_ONLY == "desktop_only"

\* MOVE_TICK_MS and CROSS_SCREEN_SECONDS; FOLLOW_SPEED_MULTIPLIER (1.4) in
\* tenths
MOVE_TICK_MS == 16
CROSS_SCREEN_SECONDS == 20
FOLLOW_SPEED_MULTIPLIER == 14

\* window style masks (src/pet/instance_manager.py): 0x00C00000, 0x00040000
WS_CAPTION == 12582912
WS_THICKFRAME == 262144

(***************************************************************************)
(* Bounds of the model.                                                    *)
(***************************************************************************)
\* INSTANCE_COUNT_MAX is 50 in src/pet/config.py:45; the model scales it
\* down so that requests above the maximum and a full registry are reached.
MaxInstances == 2
INSTANCE_COUNT_MAX == MaxInstances
\* number of DesktopPet objects ever constructed in one behaviour
MaxPetObjects == 2

PetIds == 1..MaxPetObjects
None == 0

Max(a, b) == IF a >= b THEN a ELSE b
Min(a, b) == IF a <= b THEN a ELSE b
Abs(a) == IF a >= 0 THEN a ELSE -a

\* Python's round() of n / d (d > 0): to the nearest integer, a tie to the
\* even one
RoundHalfEven(n, d) ==
    LET q == n \div d
        r == n % d
    IN  IF 2 * r < d THEN q
        ELSE IF 2 * r > d THEN q + 1
        ELSE IF q % 2 = 0 THEN q ELSE q + 1

(***************************************************************************)
(* PetStateMachine (src/pet/state_machine.py)                              *)
(***************************************************************************)
PetStateMachine ==
    [is_dragging |-> FALSE, follow_mouse |-> FALSE,
     move_enabled |-> TRUE, in_rest |-> FALSE]

StateMachineValues ==
    [is_dragging : BOOLEAN, follow_mouse : BOOLEAN,
     move_enabled : BOOLEAN, in_rest : BOOLEAN]

\* variant of begin_drag that leaves in_rest as it was
begin_drag_mut(s) == [s EXCEPT !.is_dragging = TRUE]

begin_drag(s) == [s EXCEPT !.is_dragging = TRUE, !.in_rest = FALSE]

end_drag(s) == [s EXCEPT !.is_dragging = FALSE]

\* variant of set_follow_mouse that leaves in_rest as it was
set_follow_mouse_mut(s, enabled) ==
    IF enabled
    THEN [s EXCEPT !.follow_mouse = TRUE, !.move_enabled = TRUE]
    ELSE [s EXCEPT !.follow_mouse = FALSE]

set_follow_mouse(s, enabled) ==
    IF enabled
    THEN [s EXCEPT !.follow_mouse = TRUE, !.move_enabled = TRUE, !.in_rest = FALSE]
    ELSE [s EXCEPT !.follow_mouse = FALSE]

toggle_follow_mouse(s) == set_follow_mouse(s, ~s.follow_mouse)

\* variant of stop_move that leaves follow_mouse as it was
stop_move_mut(s) == [s EXCEPT !.move_enabled = FALSE]

stop_move(s) == [s EXCEPT !.move_enabled = FALSE, !.follow_mouse = FALSE]

start_move(s) == [s EXCEPT !.move_enabled = TRUE]

set_move_enabled(s, enabled) == IF enabled THEN start_move(s) ELSE stop_move(s)

toggle_move(s) == set_move_enabled(s, ~s.move_enabled)

enter_rest(s) == [s EXCEPT !.in_rest = TRUE]

exit_rest(s) == [s EXCEPT !.in_rest = FALSE]

\* variant of state_key that tests in_rest before follow_mouse
state_key_mut(s) ==
    IF s.is_dragging THEN "drag"
    ELSE IF s.in_rest THEN "rest"
    ELSE IF s.follow_mouse THEN "follow"
    ELSE "move"

state_key(s) ==
    IF s.is_dragging THEN "drag"
    ELSE IF s.follow_mouse THEN "follow"
    ELSE IF s.in_rest THEN "rest"
    ELSE "move"

VARIABLES
    sm,          \* SpecSM: the PetStateMachine object under test
    sm_prev,     \* SpecSM: its flags before the last operation
    sm_call,     \* SpecSM: the last operation called, <<name, argument>>
    sm_ret,      \* SpecSM: the value the last operation returned
    screen,      \* availableGeometry() of the screen, a QRect
    mgr,         \* PetInstanceManager: state.follow_mouse, state.move_enabled,
                 \* scale_factor, opacity_percent, language, target_count,
                 \* _spawn_callback (set or None), the two manager timers
    pets,        \* PetInstanceManager._pets: the registry, a sequence of pet ids
    pet,         \* the DesktopPet objects, by id
    n_objects,   \* number of DesktopPet objects constructed so far
    is_quitting, \* main.py: request_quit has run
    last,        \* the last operation: its name, its inputs, what it did
    prev,        \* SpecGeo: the DesktopPet objects before the last operation
    win          \* what Windows holds: the autostart Run value, the
                 \* top-level windows user32 reports, in z-order, and the
                 \* cursor position QCursor.pos() reports

sm_vars == <<sm, sm_prev, sm_call, sm_ret>>

app_vars == <<screen, mgr, pets, pet, n_objects, is_quitting, last, prev, win>>

vars == <<sm, sm_prev, sm_call, sm_ret, screen, mgr, pets, pet, n_objects, is_quitting, last, prev, win>>

(***************************************************************************)
(* Qt geometry.  A QRect is [x, y, w, h]; right() and bottom() are the     *)
(* last pixel inside (left + width - 1), as in Qt.  A frameless window's   *)
(* frameGeometry() is its geometry().                                      *)
(***************************************************************************)
RectLeft(r) == r.x
RectTop(r) == r.y
RectRight(r) == r.x + r.w - 1
RectBottom(r) == r.y + r.h - 1

\* C++ integer division (truncation toward zero), used by QRect::center()
TruncDiv2(n) == IF n >= 0 THEN n \div 2 ELSE -((-n) \div 2)

RectCenterX(r) == TruncDiv2(RectLeft(r) + RectRight(r))
RectCenterY(r) == TruncDiv2(RectTop(r) + RectBottom(r))

\* QRect::intersects for rectangles of positive width and height
intersects(a, b) ==
    /\ RectLeft(a) <= RectRight(b)
    /\ RectLeft(b) <= RectRight(a)
    /\ RectTop(a) <= RectBottom(b)
    /\ RectTop(b) <= RectBottom(a)

\* QRect::intersected of two intersecting rectangles
intersected(a, b) ==
    LET l == Max(RectLeft(a), RectLeft(b))
        t == Max(RectTop(a), RectTop(b))
        r == Min(RectRight(a), RectRight(b))
        bt == Min(RectBottom(a), RectBottom(b))
    IN  [x |-> l, y |-> t, w |-> r - l + 1, h |-> bt - t + 1]

\* a is fully inside b
RectContains(b, a) ==
    /\ RectLeft(b) <= RectLeft(a)
    /\ RectRight(a) <= RectRight(b)
    /\ RectTop(b) <= RectTop(a)
    /\ RectBottom(a) <= RectBottom(b)

(***************************************************************************)
(* i18n.normalize_language is not among the sources; it is modelled as the *)
(* canonicalisation its callers rely on: a supported language code is kept *)
(* and anything else becomes the default "zh-CN".                          *)
(***************************************************************************)
SupportedLanguages == {"zh-CN", "en-US"}

normalize_language(l) == IF l \in SupportedLanguages THEN l ELSE "zh-CN"

(***************************************************************************)
(* GifLabel (src/pet/animation.py): the label takes the size of the        *)
(* current movie's frame times the clamped scale.  The frame sizes of the  *)
(* GIF assets are data of the installation.                                *)
(***************************************************************************)
MoveFrameW == 5
MoveFrameH == 4
RestFrameW == 1
RestFrameH == 3

FrameW(movie) == IF movie = "rest" THEN RestFrameW ELSE MoveFrameW
FrameH(movie) == IF movie = "rest" THEN RestFrameH ELSE MoveFrameH

\* GifLabel.set_scale: self._scale = max(SCALE_MIN, min(SCALE_MAX, scale))
label_scale(scale) == Max(SCALE_MIN, Min(SCALE_MAX, scale))

\* GifLabel._resize_to_frame: max(1, int(width * self._scale)), scale in tenths
label_width(movie, scale) == Max(1, (FrameW(movie) * label_scale(scale)) \div 10)
label_height(movie, scale) == Max(1, (FrameH(movie) * label_scale(scale)) \div 10)

(***************************************************************************)
(* DesktopPet (src/pet/window.py) with its MovementController and          *)
(* IdleController.  A pet is a record; the operators below are the methods *)
(* and return the pet after the call.  Velocities are in tenths of a pixel *)
(* per tick; float_x and float_y are whole pixels (the source only ever    *)
(* stores float(int) in them).  n_prepare, n_close and n_delete count the  *)
(* calls of prepare_for_exit(), close() and deleteLater() the pet got.     *)
(***************************************************************************)
\* size of a top-level QWidget that was never resized (platform default)
DefaultW == 6
DefaultH == 5

frameGeometry(p) == [x |-> p.x, y |-> p.y, w |-> p.w, h |-> p.h]

\* MovementController.place_initial: 15% / 70% of the available rectangle
place_initial_x == RectLeft(screen) + (screen.w * 15) \div 100
place_initial_y == RectTop(screen) + (screen.h * 70) \div 100

\* variant of DesktopPet.__init__ that does not start the IdleController
NewDesktopPet_mut ==
    [exists |-> TRUE,
     state |-> PetStateMachine,
     scale_factor |-> 10,
     opacity_percent |-> OPACITY_DEFAULT_PERCENT,
     language |-> "zh-CN",
     facing_left |-> FALSE,
     follow_blocked |-> FALSE,
     movie |-> "move",
     x |-> place_initial_x, y |-> place_initial_y,
     w |-> DefaultW, h |-> DefaultH,
     velocity_x |-> 10, velocity_y |-> 0,
     float_x |-> place_initial_x, float_y |-> place_initial_y,
     tick_timer |-> TRUE,
     rest_decision_timer |-> FALSE,
     rest_end_timer |-> FALSE,
     rest_end_own |-> FALSE,
     always_on_top |-> TRUE,
     force_topmost_for_multi |-> FALSE,
     stays_on_top |-> TRUE,
     visible |-> TRUE,
     is_exiting |-> FALSE,
     n_prepare |-> 0, n_close |-> 0, n_delete |-> 0]

\* DesktopPet.__init__ (the manager reference is set by the caller)
NewDesktopPet ==
    [exists |-> TRUE,
     state |-> PetStateMachine,
     scale_factor |-> 10,
     opacity_percent |-> OPACITY_DEFAULT_PERCENT,
     language |-> "zh-CN",
     facing_left |-> FALSE,
     follow_blocked |-> FALSE,
     movie |-> "move",
     x |-> place_initial_x, y |-> place_initial_y,
     w |-> DefaultW, h |-> DefaultH,
     velocity_x |-> 10, velocity_y |-> 0,
     float_x |-> place_initial_x, float_y |-> place_initial_y,
     tick_timer |-> TRUE,
     rest_decision_timer |-> TRUE,
     rest_end_timer |-> FALSE,
     rest_end_own |-> FALSE,
     always_on_top |-> TRUE,
     force_topmost_for_multi |-> FALSE,
     stays_on_top |-> TRUE,
     visible |-> TRUE,
     is_exiting |-> FALSE,
     n_prepare |-> 0, n_close |-> 0, n_delete |-> 0]

\* a DesktopPet object that has not been constructed yet
NoPet == [NewDesktopPet EXCEPT !.exists = FALSE, !.tick_timer = FALSE,
                               !.rest_decision_timer = FALSE, !.visible = FALSE]

\* variant of _sync_float_position that leaves the float shadow as it was
sync_float_position_mut(p) == p

\* MovementController._sync_float_position
sync_float_position(p) == [p EXCEPT !.float_x = p.x, !.float_y = p.y]

\* MovementController.constrain_to_screen
constrain_to_screen(p) ==
    LET g == screen
        x1 == IF p.x < RectLeft(g) THEN RectLeft(g) ELSE p.x
        x2 == IF x1 + p.w > RectRight(g) THEN RectRight(g) - p.w ELSE x1
        y1 == IF p.y < RectTop(g) THEN RectTop(g) ELSE p.y
        y2 == IF y1 + p.h > RectBottom(g) THEN RectBottom(g) - p.h ELSE y1
    IN  sync_float_position([p EXCEPT !.x = x2, !.y = y2])

\* the boundary test of auto_move_tick on one axis: which edge, if any, the
\* next coordinate is clamped to
tick_edge(next, lo, hi) ==
    IF next < lo THEN "min" ELSE IF next > hi THEN "max" ELSE "none"

\* the bounce of auto_move_tick: abs(v) at the lower edge, -abs(v) at the
\* upper edge
tick_velocity(v, edge) ==
    IF edge = "min" THEN (IF v < 0 THEN -v ELSE v)
    ELSE IF edge = "max" THEN -(IF v < 0 THEN -v ELSE v)
    ELSE v

\* DesktopPet._set_animation ("move" or "drag") and show_rest_animation
set_animation(p, key) == [p EXCEPT !.movie = IF key = "move" THEN "move" ELSE "drag"]
show_rest_animation(p) == [p EXCEPT !.movie = "rest"]

\* DesktopPet._apply_state_animation
apply_state_animation(p) ==
    IF p.state.is_dragging THEN set_animation(p, "drag")
    ELSE IF p.state.in_rest THEN p
    ELSE set_animation(p, "move")

\* REST_CHANCE_WHEN_MOVING and REST_CHANCE_WHEN_STOPPED (0.23 and 0.55), in
\* hundredths
REST_CHANCE_WHEN_MOVING == 23
REST_CHANCE_WHEN_STOPPED == 55

\* variant of the probability check that passes when the sample exceeds
\* the chance
rest_check_mut(p, sample) ==
    sample > (IF ~p.state.move_enabled THEN REST_CHANCE_WHEN_STOPPED
              ELSE REST_CHANCE_WHEN_MOVING)

\* the probability check of try_enter_rest on the sample random.random()
\* returned (in hundredths): the attempt goes on unless sample > chance
rest_check(p, sample) ==
    ~(sample > (IF ~p.state.move_enabled THEN REST_CHANCE_WHEN_STOPPED
                ELSE REST_CHANCE_WHEN_MOVING))

\* MovementController.auto_move_tick.  vx and vy are the velocities after
\* _maybe_update_horizontal_velocity and _maybe_update_vertical_velocity (the
\* old ones, or direction * speed redrawn), in tenths; pause_until_ms is 0
\* for ever, so the pause branch is never taken.  float_x += velocity_x and
\* int(round(float_x)) are computed exactly; the rounded coordinate is
\* written back to float_x.  The result carries the clamped edges.
auto_move_tick(p, vx, vy) ==
    LET g == screen
        next_x == RoundHalfEven(10 * p.float_x + vx, 10)
        next_y == RoundHalfEven(10 * p.float_y + vy, 10)
        min_x == RectLeft(g)
        max_x == RectRight(g) - p.w
        min_y == RectTop(g)
        max_y == RectBottom(g) - p.h
        ex == tick_edge(next_x, min_x, max_x)
        ey == tick_edge(next_y, min_y, max_y)
        x == IF ex = "min" THEN min_x ELSE IF ex = "max" THEN max_x ELSE next_x
        y == IF ey = "min" THEN min_y ELSE IF ey = "max" THEN max_y ELSE next_y
        q == [p EXCEPT !.velocity_x = tick_velocity(vx, ex),
                       !.velocity_y = tick_velocity(vy, ey),
                       !.float_x = x, !.float_y = y]
        r == apply_state_animation([q EXCEPT !.facing_left = q.velocity_x < 0])
    IN  [p |-> [r EXCEPT !.x = x, !.y = y], edge_x |-> ex, edge_y |-> ey]

\* n consecutive calls of auto_move_tick, none redrawing the velocity: the
\* pet after the last call, and whether any call clamped at an edge
RECURSIVE auto_move_ticks(_, _)
auto_move_ticks(p, n) ==
    IF n = 0 THEN [p |-> p, contact |-> FALSE]
    ELSE LET r == auto_move_tick(p, p.velocity_x, p.velocity_y)
             rest == auto_move_ticks(r.p, n - 1)
         IN  [p |-> rest.p,
              contact |-> r.edge_x # "none" \/ r.edge_y # "none" \/ rest.contact]

\* MovementController._base_speed_x: max(0.2, travel_px / ticks) with
\* ticks = max(1.0, CROSS_SCREEN_SECONDS * 1000.0 / MOVE_TICK_MS), as the
\* numerator of a fraction over 10 * speed_ticks
speed_ticks == Max(1, (CROSS_SCREEN_SECONDS * 1000) \div MOVE_TICK_MS)
base_speed_x(g, p) == Max(2 * speed_ticks, 10 * Max(1, g.w - p.w))

\* max_step of follow_cursor_tick:
\* max(1, int(round(base_speed * FOLLOW_SPEED_MULTIPLIER)))
follow_max_step(g, p) ==
    Max(1, RoundHalfEven(base_speed_x(g, p) * FOLLOW_SPEED_MULTIPLIER, 100 * speed_ticks))

\* the position follow_cursor_tick aims at: the cursor less half the window
follow_target(p, cursor) == <<cursor[1] - p.w \div 2, cursor[2] - p.h \div 2>>

\* MovementController.follow_cursor_tick with the cursor at cursor: the pet
\* after the call and the pair it returns.  desired and clamped are what the
\* call computes; when both steps are 0 it returns before computing them.
follow_cursor_tick(p, cursor) ==
    LET g == screen
        target == follow_target(p, cursor)
        max_step == follow_max_step(g, p)
        step_x == Max(-max_step, Min(max_step, target[1] - p.x))
        step_y == Max(-max_step, Min(max_step, target[2] - p.y))
        desired_x == p.x + step_x
        desired_y == p.y + step_y
        clamped_x == Max(RectLeft(g), Min(RectRight(g) - p.w, desired_x))
        clamped_y == Max(RectTop(g), Min(RectBottom(g) - p.h, desired_y))
        moved == clamped_x # p.x \/ clamped_y # p.y
        blocked_by_edge == desired_x # clamped_x \/ desired_y # clamped_y
    IN  IF step_x = 0 /\ step_y = 0
        THEN [p |-> p, moved |-> FALSE, blocked |-> FALSE]
        ELSE IF ~moved
        THEN [p |-> p, moved |-> FALSE, blocked |-> blocked_by_edge]
        ELSE [p |-> sync_float_position(
                        [apply_state_animation([p EXCEPT !.facing_left = step_x < 0])
                            EXCEPT !.x = clamped_x, !.y = clamped_y]),
              moved |-> TRUE, blocked |-> blocked_by_edge]

\* variant of _tick that tests follow_mouse before is_dragging
tick_mut(p, cursor, vx, vy) ==
    LET idle == [p |-> p, branch |-> "none", moved |-> FALSE, blocked |-> FALSE,
                 edge_x |-> "none", edge_y |-> "none"]
    IN  IF p.state.follow_mouse
        THEN LET f == follow_cursor_tick(p, cursor)
                 q == IF f.blocked /\ ~f.moved
                      THEN (IF ~f.p.follow_blocked
                            THEN show_rest_animation([f.p EXCEPT !.follow_blocked = TRUE])
                            ELSE f.p)
                      ELSE apply_state_animation([f.p EXCEPT !.follow_blocked = FALSE])
             IN  [idle EXCEPT !.p = q, !.branch = "follow",
                              !.moved = f.moved, !.blocked = f.blocked]
        ELSE IF p.state.is_dragging THEN [idle EXCEPT !.branch = "drag"]
        ELSE IF p.state.in_rest THEN [idle EXCEPT !.branch = "rest"]
        ELSE IF p.state.move_enabled
        THEN LET a == auto_move_tick(p, vx, vy)
             IN  [idle EXCEPT !.p = a.p, !.branch = "move",
                              !.edge_x = a.edge_x, !.edge_y = a.edge_y]
        ELSE idle

\* DesktopPet._tick: one behaviour by the priority drag > follow > rest >
\* move.  The result names the branch taken and carries what it returned.
tick(p, cursor, vx, vy) ==
    LET idle == [p |-> p, branch |-> "none", moved |-> FALSE, blocked |-> FALSE,
                 edge_x |-> "none", edge_y |-> "none"]
    IN  IF p.state.is_dragging THEN [idle EXCEPT !.branch = "drag"]
        ELSE IF p.state.follow_mouse
        THEN LET f == follow_cursor_tick(p, cursor)
                 q == IF f.blocked /\ ~f.moved
                      THEN (IF ~f.p.follow_blocked
                            THEN show_rest_animation([f.p EXCEPT !.follow_blocked = TRUE])
                            ELSE f.p)
                      ELSE apply_state_animation([f.p EXCEPT !.follow_blocked = FALSE])
             IN  [idle EXCEPT !.p = q, !.branch = "follow",
                              !.moved = f.moved, !.blocked = f.blocked]
        ELSE IF p.state.in_rest THEN [idle EXCEPT !.branch = "rest"]
        ELSE IF p.state.move_enabled
        THEN LET a == auto_move_tick(p, vx, vy)
             IN  [idle EXCEPT !.p = a.p, !.branch = "move",
                              !.edge_x = a.edge_x, !.edge_y = a.edge_y]
        ELSE idle

\* variant of try_enter_rest that does not start the rest-end timer
try_enter_rest_mut(p, draw) ==
    LET q == [p EXCEPT !.rest_decision_timer = TRUE]
    IN  IF q.state.is_dragging \/ q.state.follow_mouse THEN q
        ELSE IF q.state.in_rest THEN q
        ELSE IF ~draw THEN q
        ELSE [show_rest_animation(q) EXCEPT !.state = enter_rest(q.state)]

\* variant of try_enter_rest that starts the rest-end timer only when it is
\* not running, so that a timer left by an earlier rest keeps its deadline
try_enter_rest_stale(p, draw) ==
    LET q == [p EXCEPT !.rest_decision_timer = TRUE]
    IN  IF q.state.is_dragging \/ q.state.follow_mouse THEN q
        ELSE IF q.state.in_rest THEN q
        ELSE IF ~draw THEN q
        ELSE [show_rest_animation(q) EXCEPT !.state = enter_rest(q.state),
                                            !.rest_end_timer = TRUE,
                                            !.rest_end_own = ~q.rest_end_timer]

\* IdleController.try_enter_rest; draw is the outcome of the probability
\* check (TRUE: random.random() <= chance).  rest_end_timer.start(msec)
\* restarts a running QTimer: rest_end_own says that the armed timer counts
\* the duration drawn at the latest rest entry.
try_enter_rest(p, draw) ==
    LET q == [p EXCEPT !.rest_decision_timer = TRUE]
    IN  IF q.state.is_dragging \/ q.state.follow_mouse THEN q
        ELSE IF q.state.in_rest THEN q
        ELSE IF ~draw THEN q
        ELSE [show_rest_animation(q) EXCEPT !.state = enter_rest(q.state),
                                            !.rest_end_timer = TRUE,
                                            !.rest_end_own = TRUE]

\* IdleController.exit_rest
idle_exit_rest(p) == apply_state_animation([p EXCEPT !.state = exit_rest(p.state)])

\* DesktopPet.apply_stop_move
apply_stop_move(p, draw) ==
    LET q == try_enter_rest([p EXCEPT !.state = exit_rest(stop_move(p.state)),
                                      !.follow_blocked = FALSE], draw)
    IN  IF ~q.state.in_rest THEN set_animation(q, "move") ELSE q

\* DesktopPet.apply_resume_move
apply_resume_move(p) ==
    apply_state_animation([p EXCEPT !.state = exit_rest(start_move(p.state)),
                                    !.follow_blocked = FALSE])

\* DesktopPet.apply_move_enabled
apply_move_enabled(p, enabled, draw) ==
    IF enabled THEN apply_resume_move(p) ELSE apply_stop_move(p, draw)

\* DesktopPet.apply_follow_enabled
apply_follow_enabled(p, enabled) ==
    apply_state_animation([p EXCEPT !.state = set_follow_mouse(p.state, enabled),
                                    !.follow_blocked = FALSE])

\* variant of apply_scale that stores the clamped scale
apply_scale_mut(p, scale) ==
    constrain_to_screen([p EXCEPT !.scale_factor = label_scale(scale),
                                  !.w = label_width(p.movie, scale),
                                  !.h = label_height(p.movie, scale)])

\* DesktopPet.apply_scale: the window takes the label's size, keeps its
\* position and is then clamped to the screen
apply_scale(p, scale) ==
    constrain_to_screen([p EXCEPT !.scale_factor = scale,
                                  !.w = label_width(p.movie, scale),
                                  !.h = label_height(p.movie, scale)])

\* DesktopPet.apply_opacity_percent
apply_opacity_percent(p, percent) ==
    [p EXCEPT !.opacity_percent = Max(OPACITY_PERCENT_MIN, Min(OPACITY_PERCENT_MAX, percent))]

\* DesktopPet.apply_language
apply_language(p, l) == [p EXCEPT !.language = normalize_language(l)]

\* DesktopPet._apply_topmost_state: the WindowStaysOnTopHint flag; a window
\* that was visible is shown again after the flag change
apply_topmost_state(p) ==
    [p EXCEPT !.stays_on_top = p.always_on_top \/ p.force_topmost_for_multi]

\* DesktopPet.set_always_on_top and set_force_topmost_for_multi
set_always_on_top(p, enabled) == apply_topmost_state([p EXCEPT !.always_on_top = enabled])
set_force_topmost_for_multi(p, enabled) ==
    apply_topmost_state([p EXCEPT !.force_topmost_for_multi = enabled])

\* QWidget.show and QWidget.hide
show(p) == [p EXCEPT !.visible = TRUE]
hide(p) == [p EXCEPT !.visible = FALSE]

\* variant of prepare_for_exit that leaves the timers running
prepare_for_exit_mut(p) ==
    [p EXCEPT !.is_exiting = TRUE, !.n_prepare = @ + 1]

\* DesktopPet.prepare_for_exit: stops the three timers, drops the movies
prepare_for_exit(p) ==
    [p EXCEPT !.is_exiting = TRUE, !.tick_timer = FALSE,
              !.rest_decision_timer = FALSE, !.rest_end_timer = FALSE,
              !.rest_end_own = FALSE,
              !.n_prepare = @ + 1]

\* the teardown sequence both _close_pet_instance and shutdown run on a pet:
\* prepare_for_exit(), close() (closeEvent accepts: _is_exiting), deleteLater()
\* deleteLater() destroys the widget: of a destroyed pet the model keeps only
\* the flag _is_exiting and the three counters
teardown(p) ==
    LET q == prepare_for_exit(p)
    IN  [NoPet EXCEPT !.exists = TRUE, !.is_exiting = q.is_exiting,
                      !.n_prepare = q.n_prepare,
                      !.n_close = p.n_close + 1, !.n_delete = p.n_delete + 1]

(***************************************************************************)
(* PetInstanceManager (src/pet/instance_manager.py).  The operators take   *)
(* the pet objects P (by id) and the registry regs and return both.        *)
(***************************************************************************)
SeqToSet(q) == {q[i] : i \in 1..Len(q)}

RemoveFromSeq(q, S) == SelectSeq(q, LAMBDA e : e \notin S)

Clamp(lo, hi, v) == Max(lo, Min(hi, v))

\* the operator & of Python on non-negative integers
RECURSIVE BitAnd(_, _)
BitAnd(a, b) ==
    IF a = 0 \/ b = 0 THEN 0
    ELSE (a % 2) * (b % 2) + 2 * BitAnd(a \div 2, b \div 2)

(***************************************************************************)
(* The user32 probes of PetInstanceManager.  win.zorder lists the          *)
(* top-level windows from the top of the z-order down; a window handle is  *)
(* its position in that list and 0 is the null handle.  Of each window it  *)
(* holds what user32 answers: IsWindow, IsWindowVisible, IsIconic,         *)
(* GetClassNameW, GetWindowLongW(GWL_STYLE), GetWindowRect (has_rect: the  *)
(* call succeeded), IsZoomed, and the rcMonitor of its monitor             *)
(* (has_monitor: MonitorFromWindow and GetMonitorInfoW succeeded).         *)
(* fault names the one call that goes wrong on the window, if any:         *)
(* GetClassNameW returning 0 ("class_zero"), or GetClassNameW,             *)
(* GetWindowLongW, GetWindowRect or IsZoomed raising.                      *)
(* win.user32 is false where ctypes has no windll.                         *)
(***************************************************************************)
\* the class names compared against in the probes
DesktopClasses == {"Progman", "WorkerW"}

\* PetInstanceManager._get_class_name
get_class_name(h) ==
    IF ~win.user32 \/ h = 0 THEN ""
    ELSE IF win.zorder[h].fault = "class_zero" THEN ""
    ELSE win.zorder[h].class

\* PetInstanceManager._get_valid_foreground_window
get_valid_foreground_window ==
    IF ~win.user32 THEN 0
    ELSE IF win.foreground = 0 THEN 0
    ELSE IF ~win.zorder[win.foreground].is_window THEN 0
    ELSE IF ~win.zorder[win.foreground].visible THEN 0
    ELSE IF win.zorder[win.foreground].iconic THEN 0
    ELSE win.foreground

\* PetInstanceManager._get_top_visible_window: the walk down the z-order
get_top_visible_window ==
    IF ~win.user32 THEN 0
    ELSE LET eligible == {h \in 1..Len(win.zorder) :
                             /\ win.zorder[h].is_window
                             /\ win.zorder[h].visible
                             /\ ~win.zorder[h].iconic
                             /\ get_class_name(h) \notin DesktopClasses}
         IN  IF eligible = {} THEN 0
             ELSE CHOOSE h \in eligible : \A other \in eligible : h <= other

\* the tolerance of PetInstanceManager._is_window_fullscreen, in pixels
tolerance == 2

\* PetInstanceManager._is_window_fullscreen
is_window_fullscreen(h) ==
    IF h = 0 THEN FALSE
    ELSE LET w == win.zorder[h]
         IN  IF get_class_name(h) \in DesktopClasses THEN FALSE
             ELSE IF w.fault # "style_raises"
                     /\ BitAnd(w.style, WS_CAPTION + WS_THICKFRAME) # 0 THEN FALSE
             ELSE IF ~w.has_rect THEN FALSE
             ELSE IF w.rect.right <= w.rect.left \/ w.rect.bottom <= w.rect.top THEN FALSE
             ELSE IF ~w.has_monitor THEN FALSE
             ELSE /\ w.rect.left <= w.monitor.left + tolerance
                  /\ w.rect.top <= w.monitor.top + tolerance
                  /\ w.rect.right >= w.monitor.right - tolerance
                  /\ w.rect.bottom >= w.monitor.bottom - tolerance

\* PetInstanceManager._is_window_maximized
is_window_maximized(h) ==
    IF h = 0 \/ ~win.user32 THEN FALSE
    ELSE IF win.zorder[h].fault = "zoomed_raises" THEN FALSE
    ELSE win.zorder[h].zoomed

\* PetInstanceManager._is_top_visible_window_blocking
is_top_visible_window_blocking ==
    LET hwnd == get_top_visible_window
    IN  IF hwnd = 0 THEN FALSE
        ELSE is_window_fullscreen(hwnd) \/ is_window_maximized(hwnd)

\* variant of _is_foreground_desktop_window that takes every foreground
\* window for the desktop
is_foreground_desktop_window_mut == TRUE

\* PetInstanceManager._is_foreground_desktop_window
is_foreground_desktop_window ==
    LET hwnd == get_valid_foreground_window
    IN  IF hwnd = 0 THEN TRUE ELSE get_class_name(hwnd) \in DesktopClasses

\* the windows at which the walk of _get_top_visible_window reads the class
\* name: existing, visible, not minimized
walk_candidates ==
    {h \in 1..Len(win.zorder) :
        win.zorder[h].is_window /\ win.zorder[h].visible /\ ~win.zorder[h].iconic}

\* an exception leaves the probes _should_show_pets calls under mode: the
\* class name read raises on a window the walk reaches or on the valid
\* foreground window, or GetWindowRect raises in _is_window_fullscreen
\* (GetWindowLongW and IsZoomed are called under their own try)
probe_raises(mode) ==
    /\ win.user32
    /\ IF mode = DISPLAY_MODE_FULLSCREEN_HIDE
       THEN \/ \E h \in walk_candidates :
                 /\ win.zorder[h].fault = "class_raises"
                 /\ \A g \in walk_candidates : g < h => get_class_name(g) \in DesktopClasses
            \/ LET hwnd == get_top_visible_window
               IN  /\ hwnd # 0
                   /\ \A g \in walk_candidates : g < hwnd => win.zorder[g].fault # "class_raises"
                   /\ win.zorder[hwnd].fault = "rect_raises"
                   /\ \/ win.zorder[hwnd].fault = "style_raises"
                      \/ BitAnd(win.zorder[hwnd].style, WS_CAPTION + WS_THICKFRAME) = 0
       ELSE IF mode = DISPLAY_MODE_DESKTOP_ONLY
       THEN /\ get_valid_foreground_window # 0
            /\ win.zorder[get_valid_foreground_window].fault = "class_raises"
       ELSE FALSE

\* PetInstanceManager._should_show_pets under display mode mode
should_show_pets(mode) ==
    IF mode = DISPLAY_MODE_ALWAYS_ON_TOP THEN TRUE
    ELSE IF probe_raises(mode) THEN TRUE
    ELSE IF mode = DISPLAY_MODE_FULLSCREEN_HIDE THEN ~is_top_visible_window_blocking
    ELSE IF mode = DISPLAY_MODE_DESKTOP_ONLY THEN is_foreground_desktop_window
    ELSE TRUE

\* variant of _safe_show_or_hide_pet that shows the pet whatever the decision
safe_show_or_hide_pet_mut(p, should_show) == show(p)

\* PetInstanceManager._safe_show_or_hide_pet
safe_show_or_hide_pet(p, should_show) == IF should_show THEN show(p) ELSE hide(p)

\* PetInstanceManager._restore_all_hidden_pets
restore_all_hidden_pets(P, regs) ==
    [i \in PetIds |-> IF i \in SeqToSet(regs) /\ ~P[i].visible THEN show(P[i]) ELSE P[i]]

\* PetInstanceManager._apply_display_policy; returns the manager and the pets
apply_display_policy(m, P, regs) ==
    LET should_show == should_show_pets(m.display_mode)
        P1 == IF should_show /\ ~m.last_should_show THEN restore_all_hidden_pets(P, regs) ELSE P
    IN  [m |-> [m EXCEPT !.last_should_show = should_show],
         P |-> [i \in PetIds |->
                  IF i \in SeqToSet(regs) THEN safe_show_or_hide_pet(P1[i], should_show)
                  ELSE P1[i]]]

\* autostart.set_autostart_enabled on Windows: writes or deletes the Run value
set_autostart_enabled(w, enabled) == [w EXCEPT !.autostart = enabled]

\* autostart.is_autostart_enabled
is_autostart_enabled(w) == w.autostart

\* PetInstanceManager._sync_multi_open_topmost
sync_multi_open_topmost(P, regs) ==
    [i \in PetIds |->
        IF i \in SeqToSet(regs)
        THEN set_force_topmost_for_multi(P[i], Len(regs) >= 2)
        ELSE P[i]]

\* PetInstanceManager._relocate_pet_avoid_overlap: the first grid candidate
\* whose frame meets no other registered pet, else the fixed fallback offset
\* variant of _relocate_pet_avoid_overlap that leaves the pet where it is
relocate_pet_avoid_overlap_mut(P, regs, id) == P[id]

\* PetInstanceManager._relocate_pet_avoid_overlap; returns the pet
relocate_pet_avoid_overlap(P, regs, id) ==
    LET p == P[id]
        others == SelectSeq(regs, LAMBDA e : e # id)
        g == screen
        width == Max(1, p.w)
        height == Max(1, p.h)
        step_x == Max(24, (width * 8) \div 10)
        step_y == Max(24, (height * 8) \div 10)
        base == P[others[Len(others)]]
        max_cols == Max(1, (g.w - width) \div step_x)
        max_rows == Max(1, (g.h - height) \div step_y)
        cand_x(index) == RectLeft(g) + (((base.x - RectLeft(g)) + (index % max_cols) * step_x) % Max(1, g.w - width))
        cand_y(index) == RectTop(g) + (((base.y - RectTop(g)) + (index \div max_cols) * step_y) % Max(1, g.h - height))
        free(index) ==
            \A o \in SeqToSet(others) :
                ~intersects([x |-> cand_x(index), y |-> cand_y(index), w |-> p.w, h |-> p.h],
                            frameGeometry(P[o]))
        hits == {index \in 0..(max_cols * max_rows) : free(index)}
        first == CHOOSE index \in hits : \A other \in hits : index <= other
        fallback_x == Min(Max(RectLeft(g), base.x + step_x), RectRight(g) - width)
        fallback_y == Min(Max(RectTop(g), base.y + step_y), RectBottom(g) - height)
    IN  IF Len(others) = 0 THEN p
        ELSE IF hits # {}
        THEN sync_float_position([p EXCEPT !.x = cand_x(first), !.y = cand_y(first)])
        ELSE sync_float_position([p EXCEPT !.x = fallback_x, !.y = fallback_y])

\* variant of register_pet that appends a pet which is already registered
register_pet_mut(m, P, regs, id, draw) ==
    IF id = None THEN [P |-> P, regs |-> regs]
    ELSE
    LET regs1 == Append(regs, id)
        p0 == IF Len(regs1) > 1 THEN relocate_pet_avoid_overlap(P, regs1, id) ELSE P[id]
        p1 == apply_move_enabled(p0, m.move_enabled, draw)
        p2 == apply_follow_enabled(p1, m.follow_mouse)
        p3 == apply_scale(p2, m.scale_factor)
        p4 == apply_opacity_percent(p3, m.opacity_percent)
        p5 == apply_language(p4, m.language)
        p6 == set_always_on_top(p5, TRUE)
        P7 == sync_multi_open_topmost([P EXCEPT ![id] = p6], regs1)
    IN  [P |-> [P7 EXCEPT ![id] = safe_show_or_hide_pet(P7[id], should_show_pets(m.display_mode))],
         regs |-> regs1]

\* PetInstanceManager.register_pet; m is the manager, draw the outcome of the
\* rest draw made by the new pet's apply_stop_move.  The pet's
\* apply_autostart(get_autostart_enabled()) writes back the value just read.
register_pet(m, P, regs, id, draw) ==
    IF id = None \/ id \in SeqToSet(regs) THEN [P |-> P, regs |-> regs]
    ELSE
    LET regs1 == Append(regs, id)
        p0 == IF Len(regs1) > 1 THEN relocate_pet_avoid_overlap(P, regs1, id) ELSE P[id]
        p1 == apply_move_enabled(p0, m.move_enabled, draw)
        p2 == apply_follow_enabled(p1, m.follow_mouse)
        p3 == apply_scale(p2, m.scale_factor)
        p4 == apply_opacity_percent(p3, m.opacity_percent)
        p5 == apply_language(p4, m.language)
        p6 == set_always_on_top(p5, TRUE)
        P7 == sync_multi_open_topmost([P EXCEPT ![id] = p6], regs1)
    IN  [P |-> [P7 EXCEPT ![id] = safe_show_or_hide_pet(P7[id], should_show_pets(m.display_mode))],
         regs |-> regs1]

\* variant of unregister_pet without the topmost resync
unregister_pet_mut(P, regs, id) ==
    IF id \in SeqToSet(regs)
    THEN [P |-> P, regs |-> RemoveFromSeq(regs, {id})]
    ELSE [P |-> P, regs |-> regs]

\* PetInstanceManager.unregister_pet
unregister_pet(P, regs, id) ==
    IF id \in SeqToSet(regs)
    THEN LET regs1 == RemoveFromSeq(regs, {id})
         IN  [P |-> sync_multi_open_topmost(P, regs1), regs |-> regs1]
    ELSE [P |-> P, regs |-> regs]

\* one step of a teardown as it starts: the call made, on which pet, whether
\* the pet is in the registry regs at that moment and whether one of its
\* three timers is still active
Step(call, id, regs, p) ==
    [ev |-> call, id |-> id,
     registered |-> id \in SeqToSet(regs),
     timers |-> p.tick_timer \/ p.rest_decision_timer \/ p.rest_end_timer]

\* the three calls both _close_pet_instance and shutdown make on a pet that
\* is p when they start, the registry being regs
teardown_steps(id, regs, p) ==
    <<Step("prepare_for_exit", id, regs, p),
      Step("close", id, regs, prepare_for_exit(p)),
      Step("deleteLater", id, regs, prepare_for_exit(p))>>

\* variant of _close_pet_instance that tears the pet down and leaves it
\* in the registry
close_pet_instance_mut(P, regs, id) ==
    IF id \notin SeqToSet(regs) THEN [P |-> P, regs |-> regs, trace |-> <<>>]
    ELSE [P |-> [P EXCEPT ![id] = teardown(P[id])], regs |-> regs,
          trace |-> teardown_steps(id, regs, P[id])]

\* PetInstanceManager._close_pet_instance
close_pet_instance(P, regs, id) ==
    IF id \notin SeqToSet(regs) THEN [P |-> P, regs |-> regs, trace |-> <<>>]
    ELSE LET u == unregister_pet(P, regs, id)
         IN  [P |-> [u.P EXCEPT ![id] = teardown(u.P[id])], regs |-> u.regs,
              trace |-> <<Step("unregister_pet", id, regs, P[id])>>
                        \o teardown_steps(id, u.regs, u.P[id])]

\* closing each pet of a sample in turn (the result does not depend on the order)
RECURSIVE close_pet_instances(_, _, _)
close_pet_instances(P, regs, S) ==
    IF S = {} THEN [P |-> P, regs |-> regs, trace |-> <<>>]
    ELSE LET id == CHOOSE e \in S : TRUE
             c == close_pet_instance(P, regs, id)
             rest == close_pet_instances(c.P, c.regs, S \ {id})
         IN  [P |-> rest.P, regs |-> rest.regs, trace |-> c.trace \o rest.trace]

\* main.py create_pet, the spawn callback: constructs a DesktopPet and
\* registers it; called k times in a row, for the ids first_id, first_id+1, ...
RECURSIVE create_pets(_, _, _, _, _, _)
create_pets(m, P, regs, first_id, k, D) ==
    IF k = 0 THEN [P |-> P, regs |-> regs]
    ELSE LET r == register_pet(m, [P EXCEPT ![first_id] = NewDesktopPet], regs,
                               first_id, first_id \in D)
         IN  create_pets(m, r.P, r.regs, first_id + 1, k - 1, D)

\* PetInstanceManager._update_target_to_current_count
update_target_to_current_count(m, regs) ==
    [m EXCEPT !.target_count = Clamp(INSTANCE_COUNT_MIN, INSTANCE_COUNT_MAX, Len(regs)),
              !.settings_store.instance_count =
                  Clamp(INSTANCE_COUNT_MIN, INSTANCE_COUNT_MAX, Len(regs))]

\* a step of the manager on itself (no pet involved)
ManagerStep(call) == [ev |-> call, id |-> None, registered |-> FALSE, timers |-> FALSE]

\* variant of shutdown that leaves the spawn callback set and the two
\* manager timers running
shutdown_mut(m, P, regs) ==
    [m |-> m,
     P |-> [i \in PetIds |-> IF i \in SeqToSet(regs) THEN teardown(P[i]) ELSE P[i]],
     regs |-> <<>>,
     trace |-> [k \in 1..(3 * Len(regs)) |->
                 teardown_steps(regs[((k - 1) \div 3) + 1], <<>>,
                                P[regs[((k - 1) \div 3) + 1]])[((k - 1) % 3) + 1]]]

\* PetInstanceManager.shutdown; returns the manager, the pets, the registry
\* and the steps taken
shutdown(m, P, regs) ==
    LET m1 == [m EXCEPT !.spawn_callback = FALSE, !.display_timer = FALSE,
                        !.collision_timer = FALSE]
        n == Len(regs)
    IN  [m |-> m1,
         P |-> [i \in PetIds |-> IF i \in SeqToSet(regs) THEN teardown(P[i]) ELSE P[i]],
         regs |-> <<>>,
         trace |-> <<ManagerStep("stop_display_timer"), ManagerStep("stop_collision_timer"),
                     [ManagerStep("clear") EXCEPT
                         !.timers = \E i \in SeqToSet(regs) :
                                       Step("clear", i, regs, P[i]).timers]>>
                   \o [k \in 1..(3 * n) |->
                         teardown_steps(regs[((k - 1) \div 3) + 1], <<>>,
                                        P[regs[((k - 1) \div 3) + 1]])[((k - 1) % 3) + 1]]]

\* PetInstanceManager._move_pet_by_delta; returns the pet
move_pet_by_delta(p, dx, dy) ==
    constrain_to_screen([p EXCEPT !.x = p.x + dx, !.y = p.y + dy])

\* PetInstanceManager._bounce_two_pets on the pets a and b of P; returns the
\* pets and whether a clamp moved one of them off its pushed position
bounce_two_pets(P, a, b) ==
    LET first_rect == frameGeometry(P[a])
        second_rect == frameGeometry(P[b])
        intersection == intersected(first_rect, second_rect)
        overlap_w == intersection.w
        overlap_h == intersection.h
        horizontal == overlap_w <= overlap_h
        shift == IF horizontal THEN Max(1, overlap_w \div 2 + 1)
                 ELSE Max(1, overlap_h \div 2 + 1)
        first_before == IF horizontal
                        THEN RectCenterX(first_rect) <= RectCenterX(second_rect)
                        ELSE RectCenterY(first_rect) <= RectCenterY(second_rect)
        first_d == IF first_before THEN -shift ELSE shift
        second_d == -first_d
        first_dx == IF horizontal THEN first_d ELSE 0
        first_dy == IF horizontal THEN 0 ELSE first_d
        second_dx == IF horizontal THEN second_d ELSE 0
        second_dy == IF horizontal THEN 0 ELSE second_d
        f1 == move_pet_by_delta(P[a], first_dx, first_dy)
        s1 == move_pet_by_delta(P[b], second_dx, second_dy)
        f2 == [f1 EXCEPT !.velocity_x = -f1.velocity_x, !.velocity_y = -f1.velocity_y]
        s2 == [s1 EXCEPT !.velocity_x = -s1.velocity_x, !.velocity_y = -s1.velocity_y]
        f3 == apply_state_animation([f2 EXCEPT !.facing_left = f2.velocity_x < 0])
        s3 == apply_state_animation([s2 EXCEPT !.facing_left = s2.velocity_x < 0])
        clamped == \/ f1.x # P[a].x + first_dx \/ f1.y # P[a].y + first_dy
                   \/ s1.x # P[b].x + second_dx \/ s1.y # P[b].y + second_dy
    IN  IF intersection.w <= 0 \/ intersection.h <= 0
        THEN [P |-> P, clamped |-> FALSE]
        ELSE [P |-> [P EXCEPT ![a] = f3, ![b] = s3], clamped |-> clamped]

\* variant of the is_dragging test that never sees a drag
getattr_is_dragging_mut(p) == FALSE

\* getattr(pet.state, "is_dragging", False) in _resolve_pet_collisions
getattr_is_dragging(p) == p.state.is_dragging

\* PetInstanceManager._resolve_pet_collisions: the loops over i and j > i,
\* entered at the pair (i, j) of the registry regs
RECURSIVE resolve_from(_, _, _, _, _)
resolve_from(P, clamped, regs, i, j) ==
    IF i > Len(regs) THEN [P |-> P, clamped |-> clamped]
    ELSE IF j > Len(regs) \/ getattr_is_dragging(P[regs[i]])
    THEN resolve_from(P, clamped, regs, i + 1, i + 2)
    ELSE IF getattr_is_dragging(P[regs[j]])
            \/ ~intersects(frameGeometry(P[regs[i]]), frameGeometry(P[regs[j]]))
    THEN resolve_from(P, clamped, regs, i, j + 1)
    ELSE LET b == bounce_two_pets(P, regs[i], regs[j])
         IN  resolve_from(b.P, clamped \/ b.clamped, regs, i, j + 1)

resolve_pet_collisions(P, regs) ==
    IF Len(regs) < 2 THEN [P |-> P, clamped |-> FALSE]
    ELSE resolve_from(P, FALSE, regs, 1, 2)

(***************************************************************************)
(* Initial values.                                                         *)
(***************************************************************************)
\* the screen of the manager specification (available width and height)
WideScreenW == 100
WideScreenH == 60

WideScreen == [x |-> 0, y |-> 0, w |-> WideScreenW, h |-> WideScreenH]

\* PetInstanceManager.__init__ followed by set_spawn_callback(create_pet),
\* with the settings of a fresh SettingsStore except follow_mouse
NewManager(follow) ==
    [follow_mouse |-> follow,
     move_enabled |-> TRUE,
     scale_factor |-> 10,
     opacity_percent |-> OPACITY_DEFAULT_PERCENT,
     language |-> "zh-CN",
     display_mode |-> DISPLAY_MODE_ALWAYS_ON_TOP,
     target_count |-> INSTANCE_COUNT_MIN,
     settings_store |-> [follow_mouse |-> follow,
                         scale_factor |-> 10,
                         display_mode |-> DISPLAY_MODE_ALWAYS_ON_TOP,
                         instance_count |-> INSTANCE_COUNT_MIN,
                         opacity_percent |-> OPACITY_DEFAULT_PERCENT,
                         language |-> "zh-CN"],
     spawn_callback |-> TRUE,
     display_timer |-> TRUE,
     last_should_show |-> TRUE,
     collision_timer |-> TRUE]

\* a desktop with no top-level window and no autostart entry
NoWindows == [autostart |-> FALSE, user32 |-> TRUE, zorder |-> <<>>, foreground |-> 0,
              cursor |-> <<0, 0>>]

\* last: op the operation, arg its count argument, short: the spawn factory
\* gave out before the target was reached, closed: number of pets the
\* operation tore down, spawned: number of pets it registered
\* clamped: a constrain_to_screen of the operation changed a position
\* emit: the manager signal the operation emitted, with what held when it
\* was emitted: persisted, the new value was in its store; applied, no
\* registered pet was changed by the operation afterwards
\* trace: the steps of the operation's teardowns, in order
NoEmit == [signal |-> "none", persisted |-> FALSE, applied |-> FALSE]

NoOp == [op |-> "init", arg |-> 0, short |-> FALSE, closed |-> 0, spawned |-> 0,
         clamped |-> FALSE, emit |-> NoEmit, trace |-> <<>>, restored |-> 0,
         sample |-> -1,
         edge_x |-> "none", edge_y |-> "none",
         branch |-> "none", moved |-> FALSE, blocked |-> FALSE,
         rearmed |-> FALSE]

SMIdle ==
    /\ sm = PetStateMachine
    /\ sm_prev = PetStateMachine
    /\ sm_call = <<"init", FALSE>>
    /\ sm_ret = "none"

AppIdle ==
    /\ screen = WideScreen
    /\ mgr = NewManager(FALSE)
    /\ pets = <<>>
    /\ pet = [i \in PetIds |-> [NoPet EXCEPT !.x = 0, !.y = 0, !.float_x = 0, !.float_y = 0]]
    /\ n_objects = 0
    /\ is_quitting = FALSE
    /\ last = NoOp
    /\ prev = pet
    /\ win = NoWindows

(***************************************************************************)
(* SpecSM: a PetStateMachine constructed with any field values (it is a    *)
(* dataclass: every field is a constructor argument), then driven by any   *)
(* sequence of its methods.                                                *)
(***************************************************************************)
InitSM ==
    /\ sm \in StateMachineValues
    /\ sm_prev = sm
    /\ sm_call = <<"init", FALSE>>
    /\ sm_ret = "none"
    /\ AppIdle

SMStep(name, arg, new, ret) ==
    /\ sm' = new
    /\ sm_prev' = sm
    /\ sm_call' = <<name, arg>>
    /\ sm_ret' = ret
    /\ UNCHANGED app_vars

SM_begin_drag == SMStep("begin_drag", FALSE, begin_drag(sm), "none")
SM_end_drag == SMStep("end_drag", FALSE, end_drag(sm), "none")
SM_set_follow_mouse == \E e \in BOOLEAN : SMStep("set_follow_mouse", e, set_follow_mouse(sm, e), "none")
SM_toggle_follow_mouse == SMStep("toggle_follow_mouse", FALSE, toggle_follow_mouse(sm), "none")
SM_stop_move == SMStep("stop_move", FALSE, stop_move(sm), "none")
SM_start_move == SMStep("start_move", FALSE, start_move(sm), "none")
SM_set_move_enabled == \E e \in BOOLEAN : SMStep("set_move_enabled", e, set_move_enabled(sm, e), "none")
SM_toggle_move == SMStep("toggle_move", FALSE, toggle_move(sm), "none")
SM_enter_rest == SMStep("enter_rest", FALSE, enter_rest(sm), "none")
SM_exit_rest == SMStep("exit_rest", FALSE, exit_rest(sm), "none")
SM_state_key == SMStep("state_key", FALSE, sm, state_key(sm))

NextSM ==
    \/ SM_begin_drag
    \/ SM_end_drag
    \/ SM_set_follow_mouse
    \/ SM_toggle_follow_mouse
    \/ SM_stop_move
    \/ SM_start_move
    \/ SM_set_move_enabled
    \/ SM_toggle_move
    \/ SM_enter_rest
    \/ SM_exit_rest
    \/ SM_state_key

SpecSM == InitSM /\ [][NextSM]_vars

(***************************************************************************)
(* SpecSMDefault: a PetStateMachine constructed without arguments (the     *)
(* dataclass defaults), then driven by any sequence of its methods.        *)
(***************************************************************************)
InitSMDefault ==
    /\ SMIdle
    /\ AppIdle

SpecSMDefault == InitSMDefault /\ [][NextSM]_vars

(***************************************************************************)
(* Spec: the instance manager and its pets.  Init is the state after       *)
(* PetInstanceManager.__init__ and set_spawn_callback in main.py.          *)
(***************************************************************************)
CountInputs == (INSTANCE_COUNT_MIN - 1)..(INSTANCE_COUNT_MAX + 1)
ScaleInputs == {25}
OpacityInputs == {-5}
LanguageInputs == {"en-US", "fr-FR"}

Init ==
    /\ SMIdle
    /\ screen = WideScreen
    /\ \E follow \in BOOLEAN : mgr = NewManager(follow)
    /\ pets = <<>>
    /\ pet = [i \in PetIds |-> NoPet]
    /\ n_objects = 0
    /\ is_quitting = FALSE
    /\ last = NoOp
    /\ prev = pet
    /\ win = NoWindows

Registered == SeqToSet(pets)

\* SettingsStore holds value under key
Stored(m, key, value) ==
    key \in DOMAIN m.settings_store /\ m.settings_store[key] = value

\* a manager signal emitted when the pets were P_then, by an operation that
\* leaves them as P_after
Emitted(sig, persisted, P_then, P_after) ==
    [signal |-> sig, persisted |-> persisted,
     applied |-> \A i \in PetIds : P_then[i] = P_after[i]]

\* main.py:119, the first create_pet() of the start-up sequence (it runs
\* before the event loop, hence before any quit request)
CreatePet ==
    /\ n_objects = 0
    /\ ~is_quitting
    /\ \E D \in SUBSET {1} :
        \E r \in {create_pets(mgr, pet, pets, 1, 1, IF mgr.move_enabled THEN {} ELSE D)} :
            /\ pet' = r.P
            /\ pets' = r.regs
    /\ n_objects' = 1
    /\ last' = [NoOp EXCEPT !.op = "create_pet", !.spawned = 1]
    /\ UNCHANGED <<sm_vars, win, screen, mgr, is_quitting, prev>>

\* variant of on_set_instance_count that returns without emitting
\* instance_count_changed when the spawn factory gives out
OnSetInstanceCount_mut ==
    \E count \in CountInputs, supply \in 0..INSTANCE_COUNT_MAX :
        LET target == Clamp(INSTANCE_COUNT_MIN, INSTANCE_COUNT_MAX, count)
            m == [mgr EXCEPT !.target_count = target, !.settings_store.instance_count = target]
            missing == Max(0, target - Len(pets))
            k == IF m.spawn_callback THEN Min(missing, supply) ELSE 0
            new == (n_objects + 1)..(n_objects + k)
            excess == Max(0, Len(pets) - target)
        IN  /\ n_objects + k <= MaxPetObjects
            /\ (missing > 0 /\ m.spawn_callback) \/ supply = 0
            /\ \E D \in SUBSET (IF m.move_enabled THEN {} ELSE new) :
               \E S \in {T \in SUBSET Registered : Cardinality(T) = excess} :
                \E r \in {create_pets(m, pet, pets, n_objects + 1, k, D)} :
                \E c \in {close_pet_instances(r.P, r.regs, S)} :
                    /\ pet' = c.P
                    /\ pets' = c.regs
                    /\ last' = [NoOp EXCEPT !.op = "on_set_instance_count", !.arg = count,
                                            !.short = (k < missing),
                                            !.closed = Cardinality(S), !.spawned = k,
                                            !.trace = c.trace,
                                            !.emit = IF k < missing THEN NoEmit
                                                     ELSE Emitted("instance_count_changed",
                                                                  Stored(m, "instance_count", target),
                                                                  c.P, c.P)]
            /\ mgr' = m
            /\ n_objects' = n_objects + k
            /\ UNCHANGED <<sm_vars, win, screen, is_quitting, prev>>

\* PetInstanceManager.on_set_instance_count.  supply is the number of
\* instances the spawn factory delivers before it returns None, S the random
\* sample of the excess, D the new pets whose rest draw succeeds.
OnSetInstanceCount ==
    \E count \in CountInputs, supply \in 0..INSTANCE_COUNT_MAX :
        LET target == Clamp(INSTANCE_COUNT_MIN, INSTANCE_COUNT_MAX, count)
            m == [mgr EXCEPT !.target_count = target, !.settings_store.instance_count = target]
            missing == Max(0, target - Len(pets))
            k == IF m.spawn_callback THEN Min(missing, supply) ELSE 0
            new == (n_objects + 1)..(n_objects + k)
            excess == Max(0, Len(pets) - target)
        IN  /\ n_objects + k <= MaxPetObjects
            /\ (missing > 0 /\ m.spawn_callback) \/ supply = 0
            /\ \E D \in SUBSET (IF m.move_enabled THEN {} ELSE new) :
               \E S \in {T \in SUBSET Registered : Cardinality(T) = excess} :
                \E r \in {create_pets(m, pet, pets, n_objects + 1, k, D)} :
                \E c \in {close_pet_instances(r.P, r.regs, S)} :
                    /\ pet' = c.P
                    /\ pets' = c.regs
                    /\ last' = [NoOp EXCEPT !.op = "on_set_instance_count", !.arg = count,
                                            !.short = (k < missing),
                                            !.closed = Cardinality(S), !.spawned = k,
                                            !.trace = c.trace,
                                            !.emit = Emitted("instance_count_changed",
                                                             Stored(m, "instance_count", target),
                                                             c.P, c.P)]
            /\ mgr' = m
            /\ n_objects' = n_objects + k
            /\ UNCHANGED <<sm_vars, win, screen, is_quitting, prev>>

\* on_set_instance_count called with the maximum count
SpawnToMax == OnSetInstanceCount /\ last'.arg = INSTANCE_COUNT_MAX

\* PetInstanceManager.on_set_follow
OnSetFollow ==
    \E enabled \in BOOLEAN :
        LET m == [mgr EXCEPT !.follow_mouse = enabled,
                             !.settings_store.follow_mouse = enabled]
            P == [i \in PetIds |->
                    IF i \in Registered THEN apply_follow_enabled(pet[i], enabled) ELSE pet[i]]
        IN  /\ mgr' = m
            /\ pet' = P
            /\ last' = [NoOp EXCEPT !.op = "on_set_follow",
                                    !.emit = Emitted("follow_changed",
                                                     Stored(m, "follow_mouse", enabled), P, P)]
        /\ UNCHANGED <<sm_vars, win, screen, pets, n_objects, is_quitting, prev>>

\* PetInstanceManager.on_set_move_enabled_all
OnSetMoveEnabledAll ==
    \E enabled \in BOOLEAN :
    \E D \in SUBSET (IF enabled THEN {} ELSE Registered) :
        LET m == [mgr EXCEPT !.move_enabled = enabled]
            P == [i \in PetIds |->
                    IF i \in Registered THEN apply_move_enabled(pet[i], enabled, i \in D) ELSE pet[i]]
        IN  /\ mgr' = m
            /\ pet' = P
            /\ last' = [NoOp EXCEPT !.op = "on_set_move_enabled_all",
                                    !.emit = Emitted("move_enabled_changed",
                                                     Stored(m, "move_enabled", enabled), P, P)]
        /\ UNCHANGED <<sm_vars, win, screen, pets, n_objects, is_quitting, prev>>

\* SettingsStore.set_scale_factor: the value is clipped to the allowed range
\* before it is saved
set_scale_factor(store, scale) ==
    [store EXCEPT !.scale_factor = Max(SCALE_MIN, Min(SCALE_MAX, scale))]

\* PetInstanceManager.on_set_scale
OnSetScale ==
    \E scale \in ScaleInputs :
        LET m == [mgr EXCEPT !.scale_factor = scale,
                             !.settings_store = set_scale_factor(mgr.settings_store, scale)]
            P == [i \in PetIds |->
                    IF i \in Registered THEN apply_scale(pet[i], scale) ELSE pet[i]]
        IN  /\ mgr' = m
            /\ pet' = P
            /\ last' = [NoOp EXCEPT !.op = "on_set_scale",
                                    !.emit = Emitted("scale_changed",
                                                     Stored(m, "scale_factor",
                                                            Max(SCALE_MIN, Min(SCALE_MAX, scale))),
                                                     P, P)]
        /\ UNCHANGED <<sm_vars, win, screen, pets, n_objects, is_quitting, prev>>

\* PetInstanceManager.on_set_opacity_percent
OnSetOpacityPercent ==
    \E percent \in OpacityInputs :
        LET normalized == Max(OPACITY_PERCENT_MIN, Min(OPACITY_PERCENT_MAX, percent))
            m == [mgr EXCEPT !.opacity_percent = normalized,
                             !.settings_store.opacity_percent = normalized]
            P == [i \in PetIds |->
                    IF i \in Registered THEN apply_opacity_percent(pet[i], normalized) ELSE pet[i]]
        IN  /\ mgr' = m
            /\ pet' = P
            /\ last' = [NoOp EXCEPT !.op = "on_set_opacity_percent",
                                    !.emit = Emitted("opacity_changed",
                                                     Stored(m, "opacity_percent", normalized), P, P)]
        /\ UNCHANGED <<sm_vars, win, screen, pets, n_objects, is_quitting, prev>>

\* PetInstanceManager.on_set_language
OnSetLanguage ==
    \E l \in LanguageInputs :
        LET normalized == normalize_language(l)
            m == [mgr EXCEPT !.language = normalized, !.settings_store.language = normalized]
            P == [i \in PetIds |->
                    IF i \in Registered THEN apply_language(pet[i], normalized) ELSE pet[i]]
        IN  /\ mgr' = m
            /\ pet' = P
            /\ last' = [NoOp EXCEPT !.op = "on_set_language",
                                    !.emit = Emitted("language_changed",
                                                     Stored(m, "language", normalized), P, P)]
        /\ UNCHANGED <<sm_vars, win, screen, pets, n_objects, is_quitting, prev>>

\* PetInstanceManager.on_set_autostart: the Run value is written by each
\* registered pet's apply_autostart
OnSetAutostart ==
    \E enabled \in BOOLEAN :
        LET w == IF pets = <<>> THEN win ELSE set_autostart_enabled(win, enabled)
        IN  /\ win' = w
            /\ last' = [NoOp EXCEPT !.op = "on_set_autostart",
                                    !.emit = Emitted("autostart_changed",
                                                     is_autostart_enabled(w) = enabled, pet, pet)]
            /\ UNCHANGED <<sm_vars, screen, mgr, pets, pet, n_objects, is_quitting, prev>>

DisplayModes ==
    {DISPLAY_MODE_ALWAYS_ON_TOP, DISPLAY_MODE_FULLSCREEN_HIDE, DISPLAY_MODE_DESKTOP_ONLY}

DisplayModeInputs == DisplayModes \cup {"windowed"}

\* PetInstanceManager.on_set_display_mode: display_mode_changed is emitted
\* after the set_always_on_top loop and before _apply_display_policy()
OnSetDisplayMode ==
    \E mode \in DisplayModeInputs :
        LET normalized == IF mode \in DisplayModes THEN mode ELSE DISPLAY_MODE_ALWAYS_ON_TOP
            m == [mgr EXCEPT !.display_mode = normalized,
                             !.settings_store.display_mode = normalized]
            P == [i \in PetIds |->
                    IF i \in Registered THEN set_always_on_top(pet[i], TRUE) ELSE pet[i]]
            r == apply_display_policy(m, P, pets)
        IN  /\ mgr' = r.m
            /\ pet' = r.P
            /\ last' = [NoOp EXCEPT !.op = "on_set_display_mode",
                                    !.restored = Cardinality({i \in Registered :
                                                     ~pet[i].visible /\ r.P[i].visible}),
                                    !.emit = Emitted("display_mode_changed",
                                                     Stored(m, "display_mode", normalized), P, r.P)]
            /\ UNCHANGED <<sm_vars, win, screen, pets, n_objects, is_quitting, prev>>

\* the display timer fires: PetInstanceManager._apply_display_policy
ApplyDisplayPolicy ==
    /\ mgr.display_timer
    /\ \E r \in {apply_display_policy(mgr, pet, pets)} :
           /\ mgr' = r.m
           /\ pet' = r.P
           /\ last' = [NoOp EXCEPT !.op = "apply_display_policy",
                                   !.restored = Cardinality({i \in Registered :
                                                    ~pet[i].visible /\ r.P[i].visible})]
    /\ UNCHANGED <<sm_vars, win, screen, pets, n_objects, is_quitting, prev>>

\* PetInstanceManager.close_current_pet, called from the context menu of a
\* pet object; it returns at once for a pet that is not registered
CloseCurrentPet ==
    \E id \in {i \in PetIds : pet[i].exists} :
        IF id \notin Registered
        THEN /\ last' = [NoOp EXCEPT !.op = "close_current_pet", !.arg = id]
             /\ UNCHANGED <<sm_vars, win, screen, mgr, pets, pet, n_objects, is_quitting, prev>>
        ELSE
        \E c \in {close_pet_instance(pet, pets, id)} :
            /\ pet' = c.P
            /\ pets' = c.regs
            /\ mgr' = update_target_to_current_count(mgr, c.regs)
            /\ last' = [NoOp EXCEPT !.op = "close_current_pet", !.arg = id, !.closed = 1,
                                    !.trace = c.trace,
                                    !.emit = Emitted("instance_count_changed",
                                                     Stored(update_target_to_current_count(mgr, c.regs),
                                                            "instance_count", Len(c.regs)),
                                                     c.P, c.P)]
            /\ UNCHANGED <<sm_vars, win, screen, n_objects, is_quitting, prev>>

\* PetInstanceManager.close_random_pets(count), update_target = True
CloseRandomPets ==
    \E count \in 0..(INSTANCE_COUNT_MAX + 1) :
        IF pets = <<>> \/ count <= 0
        THEN /\ last' = [NoOp EXCEPT !.op = "close_random_pets", !.arg = count]
             /\ UNCHANGED <<sm_vars, win, screen, mgr, pets, pet, n_objects, is_quitting, prev>>
        ELSE
        /\ \E S \in {T \in SUBSET Registered : Cardinality(T) = Min(count, Len(pets))} :
            \E c \in {close_pet_instances(pet, pets, S)} :
                /\ pet' = c.P
                /\ pets' = c.regs
                /\ mgr' = update_target_to_current_count(mgr, c.regs)
                /\ last' = [NoOp EXCEPT !.op = "close_random_pets", !.arg = count,
                                        !.closed = Cardinality(S), !.trace = c.trace,
                                        !.emit = Emitted("instance_count_changed",
                                                         Stored(update_target_to_current_count(mgr, c.regs),
                                                                "instance_count", Len(c.regs)),
                                                         c.P, c.P)]
        /\ UNCHANGED <<sm_vars, win, screen, n_objects, is_quitting, prev>>

\* main.py request_quit -> PetInstanceManager.shutdown
RequestQuit ==
    IF is_quitting
    THEN /\ last' = [NoOp EXCEPT !.op = "request_quit"]
         /\ UNCHANGED <<sm_vars, win, screen, mgr, pets, pet, n_objects, is_quitting, prev>>
    ELSE
    /\ is_quitting' = TRUE
    /\ \E r \in {shutdown(mgr, pet, pets)} :
           /\ mgr' = r.m
           /\ pets' = r.regs
           /\ pet' = r.P
           /\ last' = [NoOp EXCEPT !.op = "request_quit", !.closed = Len(pets),
                                   !.trace = r.trace]
    /\ UNCHANGED <<sm_vars, win, screen, n_objects, prev>>

\* input.handle_mouse_press, left button
MousePress ==
    \E id \in Registered :
        /\ pet' = [pet EXCEPT ![id] = set_animation([pet[id] EXCEPT !.state = begin_drag(pet[id].state)], "drag")]
        /\ last' = [NoOp EXCEPT !.op = "mouse_press", !.arg = id]
        /\ UNCHANGED <<sm_vars, win, screen, mgr, pets, n_objects, is_quitting, prev>>

\* the values of random.random() tried, in hundredths: the least one, and
\* those at and just above each of the two chances
Samples == {0, REST_CHANCE_WHEN_MOVING, REST_CHANCE_WHEN_MOVING + 1,
            REST_CHANCE_WHEN_STOPPED, REST_CHANCE_WHEN_STOPPED + 1}

\* input.handle_mouse_release, left button; sample is what random.random()
\* returns in try_enter_rest
MouseRelease ==
    \E id \in Registered, sample \in Samples :
        /\ pet[id].state.is_dragging
        /\ \E q \in {try_enter_rest([pet[id] EXCEPT !.state = end_drag(pet[id].state)],
                                     rest_check(pet[id], sample))} :
               pet' = [pet EXCEPT ![id] = IF ~q.state.in_rest THEN apply_state_animation(q) ELSE q]
        /\ last' = [NoOp EXCEPT !.op = "mouse_release", !.arg = id, !.sample = sample,
                                !.rearmed = pet[id].rest_end_timer /\ pet'[id].state.in_rest]
        /\ UNCHANGED <<sm_vars, win, screen, mgr, pets, n_objects, is_quitting, prev>>

\* variant of on_toggle_move_current that toggles every registered pet
OnToggleMoveCurrent_mut ==
    \E id \in Registered, draw \in BOOLEAN :
        /\ pet' = [i \in PetIds |->
                     IF i \in Registered
                     THEN apply_move_enabled(pet[i], ~pet[id].state.move_enabled, draw)
                     ELSE pet[i]]
        /\ last' = [NoOp EXCEPT !.op = "on_toggle_move_current", !.arg = id]
        /\ UNCHANGED <<sm_vars, win, screen, mgr, pets, n_objects, is_quitting, prev>>

\* DesktopPet.on_toggle_move_current (context menu: this pet only)
OnToggleMoveCurrent ==
    \E id \in Registered, draw \in BOOLEAN :
        /\ pet' = [pet EXCEPT ![id] = apply_move_enabled(pet[id], ~pet[id].state.move_enabled, draw)]
        /\ last' = [NoOp EXCEPT !.op = "on_toggle_move_current", !.arg = id]
        /\ UNCHANGED <<sm_vars, win, screen, mgr, pets, n_objects, is_quitting, prev>>

\* the rest-decision timer fires: IdleController.try_enter_rest
RestDecisionTimeout ==
    \E id \in Registered, draw \in BOOLEAN :
        /\ pet[id].rest_decision_timer
        /\ pet' = [pet EXCEPT ![id] = try_enter_rest(pet[id], draw)]
        /\ last' = [NoOp EXCEPT !.op = "try_enter_rest", !.arg = id,
                                !.rearmed = pet[id].rest_end_timer /\ pet'[id].state.in_rest]
        /\ UNCHANGED <<sm_vars, win, screen, mgr, pets, n_objects, is_quitting, prev>>

\* the one-shot rest-end timer fires: IdleController.exit_rest
RestEndTimeout ==
    \E id \in Registered :
        /\ pet[id].rest_end_timer
        /\ pet' = [pet EXCEPT ![id] = idle_exit_rest([pet[id] EXCEPT !.rest_end_timer = FALSE,
                                                                  !.rest_end_own = FALSE])]
        /\ last' = [NoOp EXCEPT !.op = "exit_rest", !.arg = id]
        /\ UNCHANGED <<sm_vars, win, screen, mgr, pets, n_objects, is_quitting, prev>>

Next ==
    \/ CreatePet
    \/ OnSetInstanceCount
    \/ OnSetFollow
    \/ OnSetMoveEnabledAll
    \/ CloseCurrentPet
    \/ CloseRandomPets
    \/ RequestQuit
    \/ MousePress
    \/ MouseRelease
    \/ OnToggleMoveCurrent
    \/ RestDecisionTimeout
    \/ RestEndTimeout

Spec == Init /\ [][Next]_vars

(***************************************************************************)
(* SpecCount: the operations that change the registry (instance count,     *)
(* closing, quitting) together with the two flag broadcasts that decide    *)
(* how a new pet is set up.                                                *)
(***************************************************************************)
NextCount ==
    \/ CreatePet
    \/ OnSetInstanceCount
    \/ OnSetFollow
    \/ OnSetMoveEnabledAll
    \/ CloseCurrentPet
    \/ CloseRandomPets
    \/ RequestQuit

SpecCount == Init /\ [][NextCount]_vars

(***************************************************************************)
(* SpecSettings: the five broadcast setters over the pets present once     *)
(* main() has started up, whose move switch is also toggled locally.       *)
(***************************************************************************)
\* main.py:119-157: the first create_pet(), then
\* on_set_instance_count(stored instance count) with a factory that
\* delivers; D are the new pets whose rest draw succeeds, S the sample closed
StartUp ==
    /\ n_objects = 0
    /\ \E count \in CountInputs :
        LET target == Clamp(INSTANCE_COUNT_MIN, INSTANCE_COUNT_MAX, count)
            m == [mgr EXCEPT !.target_count = target, !.settings_store.instance_count = target]
            k == Max(1, target)
        IN  /\ k <= MaxPetObjects
            /\ \E D \in SUBSET (IF m.move_enabled THEN {} ELSE 1..k) :
               \E S \in {T \in SUBSET {1} : Cardinality(T) = Max(0, 1 - target)} :
                \E r \in {create_pets(m, pet, pets, 1, k, D)} :
                \E c \in {close_pet_instances(r.P, r.regs, S)} :
                    /\ pet' = c.P
                    /\ pets' = c.regs
            /\ mgr' = m
            /\ n_objects' = k
            /\ last' = [NoOp EXCEPT !.op = "start_up"]
    /\ UNCHANGED <<sm_vars, win, screen, is_quitting, prev>>

NextSettings ==
    \/ StartUp
    \/ OnSetFollow
    \/ OnSetMoveEnabledAll
    \/ OnSetScale
    \/ OnSetOpacityPercent
    \/ OnSetLanguage
    \/ OnToggleMoveCurrent

SpecSettings == Init /\ [][NextSettings]_vars

(***************************************************************************)
(* SpecGeo: window geometry.  Two registered pets on a screen; Init draws  *)
(* the screen's available rectangle, each pet's position, the movie its    *)
(* size was taken from, its velocity and whether it is being dragged.      *)
(* Positions outside the available rectangle are those a change of the     *)
(* screen's available area leaves a window at.                             *)
(***************************************************************************)
GeoMaxX == 6
GeoMaxY == 5

\* a screen just as large as a pet window, and a roomy one
GeoScreens ==
    {[x |-> 1, y |-> 1, w |-> MoveFrameW, h |-> MoveFrameH],
     [x |-> 0, y |-> 0, w |-> 3 * MoveFrameW, h |-> 2 * MoveFrameH + 1]}

GeoFirstXs == 2..4
GeoFirstYs == 2..3
GeoSecondXs == 0..GeoMaxX
GeoSecondYs == 0..GeoMaxY
GeoFirstVelocities == {<<10, 0>>, <<-10, 10>>, <<0, -10>>}
GeoSecondVelocities == {<<10, 10>>, <<-10, 0>>}
GeoMovies == {"move", "rest"}

\* a registered pet as register_pet leaves it under the manager's initial
\* settings, then placed: size taken under the movie sized_by, at (x, y)
GeoPet(x, y, sized_by, v, dragging) ==
    [NewDesktopPet EXCEPT
        !.x = x, !.y = y, !.float_x = x, !.float_y = y,
        !.w = label_width(sized_by, 10), !.h = label_height(sized_by, 10),
        !.velocity_x = v[1], !.velocity_y = v[2],
        !.facing_left = v[1] < 0,
        !.force_topmost_for_multi = TRUE,
        !.movie = IF dragging THEN "drag" ELSE "move",
        !.state = IF dragging THEN begin_drag(PetStateMachine) ELSE PetStateMachine]

InitGeo ==
    /\ SMIdle
    /\ screen \in GeoScreens
    /\ mgr = [NewManager(FALSE) EXCEPT !.target_count = 2]
    /\ pets = <<1, 2>>
    /\ \E x1 \in GeoFirstXs, y1 \in GeoFirstYs, x2 \in GeoSecondXs, y2 \in GeoSecondYs,
          m1 \in GeoMovies, m2 \in GeoMovies,
          v1 \in GeoFirstVelocities, v2 \in GeoSecondVelocities,
          d1 \in BOOLEAN, d2 \in BOOLEAN :
            pet = [i \in PetIds |->
                     IF i = 1 THEN GeoPet(x1, y1, m1, v1, d1)
                     ELSE IF i = 2 THEN GeoPet(x2, y2, m2, v2, d2)
                     ELSE NoPet]
    /\ n_objects = 2
    /\ is_quitting = FALSE
    /\ last = NoOp
    /\ prev = pet
    /\ win = NoWindows

\* the collision timer fires: PetInstanceManager._resolve_pet_collisions
ResolvePetCollisions ==
    /\ mgr.collision_timer
    /\ \E r \in {resolve_pet_collisions(pet, pets)} :
           /\ pet' = r.P
           /\ last' = [NoOp EXCEPT !.op = "resolve_pet_collisions", !.clamped = r.clamped]
    /\ prev' = pet
    /\ UNCHANGED <<sm_vars, win, screen, mgr, pets, n_objects, is_quitting>>

\* DesktopPet.event, QEvent.WindowDeactivate: constrain_to_screen
WindowDeactivate ==
    \E id \in Registered :
        /\ pet' = [pet EXCEPT ![id] = constrain_to_screen(pet[id])]
        /\ last' = [NoOp EXCEPT !.op = "constrain_to_screen", !.arg = id]
        /\ prev' = pet
        /\ UNCHANGED <<sm_vars, win, screen, mgr, pets, n_objects, is_quitting>>

NextGeo ==
    \/ ResolvePetCollisions
    \/ WindowDeactivate

SpecGeo == InitGeo /\ [][NextGeo]_vars

(***************************************************************************)
(* SpecMove: the autonomous movement of one registered pet.  Init draws    *)
(* the screen, the pet's position (clamped to the screen, as register_pet  *)
(* leaves it) and its velocity; the tick timer then fires any number of    *)
(* times.  The speeds tried are 0.3 and 1.5 pixels per tick.               *)
(***************************************************************************)
MoveXs == 0..(3 * MoveFrameW)
MoveYs == 0..(2 * MoveFrameH + 1)
TickSpeeds == {3, 15}
TickDirections == {-1, 0, 1}
TickVelocities == {d * v : d \in TickDirections, v \in TickSpeeds}

InitMove ==
    /\ SMIdle
    /\ screen \in GeoScreens
    /\ mgr = NewManager(FALSE)
    /\ pets = <<1>>
    /\ \E x \in MoveXs, y \in MoveYs, vx \in TickVelocities, vy \in TickVelocities :
           pet = [i \in PetIds |->
                    IF i = 1
                    THEN constrain_to_screen(
                            [GeoPet(x, y, "move", <<vx, vy>>, FALSE)
                                EXCEPT !.force_topmost_for_multi = FALSE])
                    ELSE NoPet]
    /\ n_objects = 1
    /\ is_quitting = FALSE
    /\ last = NoOp
    /\ prev = pet
    /\ win = NoWindows

\* the tick timer fires: DesktopPet._tick.  A dragged or resting pet returns
\* at once; a pet that may move takes auto_move_tick, with each velocity
\* kept or redrawn
AutoMoveTick ==
    \E id \in Registered :
    \E vx \in {pet[id].velocity_x} \cup TickVelocities,
       vy \in {pet[id].velocity_y} \cup TickVelocities :
        /\ pet[id].tick_timer
        /\ ~pet[id].state.is_dragging
        /\ ~pet[id].state.follow_mouse
        /\ ~pet[id].state.in_rest
        /\ pet[id].state.move_enabled
        /\ \E r \in {auto_move_tick(pet[id], vx, vy)} :
               /\ pet' = [pet EXCEPT ![id] = r.p]
               /\ last' = [NoOp EXCEPT !.op = "auto_move_tick", !.arg = id,
                                       !.edge_x = r.edge_x, !.edge_y = r.edge_y]
        /\ prev' = pet
        /\ UNCHANGED <<sm_vars, win, screen, mgr, pets, n_objects, is_quitting>>

NextMove ==
    \/ AutoMoveTick
    \/ WindowDeactivate

SpecMove == InitMove /\ [][NextMove]_vars

(***************************************************************************)
(* SpecFollow: one registered pet following the cursor.  Init draws the    *)
(* screen (the two of SpecGeo and one wide enough for a follow step of two *)
(* pixels), the pet's position, clamped to the screen, and the cursor; the *)
(* tick timer fires and the user moves the cursor.                         *)
(***************************************************************************)
FollowScreens ==
    GeoScreens \cup {[x |-> 0, y |-> 0, w |-> 1350, h |-> 2 * MoveFrameH + 1]}

\* cursor positions tried: within three window widths and heights of the
\* screen's top left corner, one of them outside the screen
CursorPositions ==
    {<<x, y>> : x \in {RectLeft(screen) - 1, RectLeft(screen) + MoveFrameW \div 2,
                       RectLeft(screen) + MoveFrameW + 2,
                       RectLeft(screen) + 3 * MoveFrameW - 3,
                       RectLeft(screen) + 3 * MoveFrameW - 1},
               y \in {RectTop(screen), RectTop(screen) + MoveFrameH,
                       RectTop(screen) + 2 * MoveFrameH + 1}}

FollowXs ==
    {RectLeft(screen), RectLeft(screen) + 2, RectLeft(screen) + MoveFrameW,
     RectLeft(screen) + 3 * MoveFrameW}

InitFollow ==
    /\ SMIdle
    /\ screen \in FollowScreens
    /\ mgr = NewManager(TRUE)
    /\ pets = <<1>>
    /\ \E x \in FollowXs, y \in MoveYs :
           pet = [i \in PetIds |->
                    IF i = 1
                    THEN constrain_to_screen(
                            apply_follow_enabled(
                                [GeoPet(x, y, "move", <<10, 0>>, FALSE)
                                    EXCEPT !.force_topmost_for_multi = FALSE], TRUE))
                    ELSE NoPet]
    /\ n_objects = 1
    /\ is_quitting = FALSE
    /\ last = NoOp
    /\ prev = pet
    /\ \E c \in CursorPositions : win = [NoWindows EXCEPT !.cursor = c]

\* the tick timer fires: DesktopPet._tick, with the cursor where it is and,
\* for the autonomous step, each velocity kept or redrawn
Tick ==
    \E id \in Registered :
    \E v \in (IF tick(pet[id], win.cursor, 0, 0).branch = "move"
               THEN ({pet[id].velocity_x} \cup TickVelocities)
                        \X ({pet[id].velocity_y} \cup TickVelocities)
               ELSE {<<pet[id].velocity_x, pet[id].velocity_y>>}) :
        /\ pet[id].tick_timer
        /\ \E r \in {tick(pet[id], win.cursor, v[1], v[2])} :
               /\ pet' = [pet EXCEPT ![id] = r.p]
               /\ last' = [NoOp EXCEPT !.op = "tick", !.arg = id, !.branch = r.branch,
                                       !.moved = r.moved, !.blocked = r.blocked,
                                       !.edge_x = r.edge_x, !.edge_y = r.edge_y]
        /\ prev' = pet
        /\ UNCHANGED <<sm_vars, win, screen, mgr, pets, n_objects, is_quitting>>

\* the user moves the mouse
MoveCursor ==
    \E c \in CursorPositions :
        /\ win' = [win EXCEPT !.cursor = c]
        /\ last' = [NoOp EXCEPT !.op = "move_cursor"]
        /\ prev' = pet
        /\ UNCHANGED <<sm_vars, screen, mgr, pets, pet, n_objects, is_quitting>>

NextFollow ==
    \/ Tick
    \/ MoveCursor

SpecFollow == InitFollow /\ [][NextFollow]_vars

(***************************************************************************)
(* SpecBroadcast: the manager driven through its own interface only, the   *)
(* broadcast setters and the instance count; no pet is touched locally.    *)
(***************************************************************************)
NextBroadcast ==
    \/ CreatePet
    \/ OnSetInstanceCount
    \/ OnSetFollow
    \/ OnSetMoveEnabledAll
    \/ OnSetScale
    \/ OnSetOpacityPercent
    \/ OnSetLanguage

SpecBroadcast == Init /\ [][NextBroadcast]_vars

(***************************************************************************)
(* SpecSetters: the seven broadcast setters of the manager, over a         *)
(* registry that the first create_pet() fills and the context menu's       *)
(* close empties again.                                                    *)
(***************************************************************************)
NextSetters ==
    \/ CreatePet
    \/ CloseCurrentPet
    \/ OnSetFollow
    \/ OnSetMoveEnabledAll
    \/ OnSetScale
    \/ OnSetOpacityPercent
    \/ OnSetLanguage
    \/ OnSetAutostart
    \/ OnSetDisplayMode

SpecSetters == Init /\ [][NextSetters]_vars

(***************************************************************************)
(* SpecRegistry: every operation that touches the registry, with           *)
(* register_pet called again for a registered pet or with None (the calls  *)
(* on_set_instance_count guards against) and unregister_pet called for a   *)
(* pet that has left the registry.                                         *)
(***************************************************************************)
\* PetInstanceManager.register_pet(pet), pet registered already or None
RegisterPet ==
    \E id \in Registered \cup {None}, draw \in BOOLEAN :
        \E r \in {register_pet(mgr, pet, pets, id, draw)} :
            /\ pet' = r.P
            /\ pets' = r.regs
            /\ last' = [NoOp EXCEPT !.op = "register_pet", !.arg = id]
            /\ UNCHANGED <<sm_vars, win, screen, mgr, n_objects, is_quitting, prev>>

\* PetInstanceManager.unregister_pet(pet), pet not in the registry
UnregisterPet ==
    \E id \in {i \in PetIds : pet[i].exists /\ i \notin Registered} \cup {None} :
        \E u \in {unregister_pet(pet, pets, id)} :
            /\ pet' = u.P
            /\ pets' = u.regs
            /\ last' = [NoOp EXCEPT !.op = "unregister_pet", !.arg = id]
            /\ UNCHANGED <<sm_vars, win, screen, mgr, n_objects, is_quitting, prev>>

NextRegistry ==
    \/ CreatePet
    \/ OnSetInstanceCount
    \/ CloseCurrentPet
    \/ CloseRandomPets
    \/ RegisterPet
    \/ UnregisterPet

SpecRegistry == Init /\ [][NextRegistry]_vars

(***************************************************************************)
(* SpecTopmost: the operations that decide a pet window's stays-on-top     *)
(* flag: registration, unregistration, closing, and the display mode.      *)
(***************************************************************************)
NextTopmost ==
    \/ CreatePet
    \/ OnSetInstanceCount
    \/ CloseCurrentPet
    \/ RegisterPet
    \/ UnregisterPet
    \/ OnSetDisplayMode

SpecTopmost == Init /\ [][NextTopmost]_vars

(***************************************************************************)
(* SpecDisplay: the display policy.  Init draws what user32 reports: up to *)
(* MaxWindows top-level windows in z-order, each of one of the kinds       *)
(* below, and which of them is the foreground window.  The first pet is    *)
(* created, the display mode is set, and the display timer polls.          *)
(***************************************************************************)
MaxWindows == 2

\* height of the taskbar: the monitor is that much taller than the
\* available rectangle
TaskbarH == 4

\* rcMonitor of the one monitor (a RECT: right and bottom are exclusive)
MonitorRect ==
    [left |-> 0, top |-> 0, right |-> WideScreenW, bottom |-> WideScreenH + TaskbarH]

\* the rectangle d pixels inside the monitor on each side
Inset(d) ==
    [left |-> MonitorRect.left + d, top |-> MonitorRect.top + d,
     right |-> MonitorRect.right - d, bottom |-> MonitorRect.bottom - d]

\* a top-level window as user32 reports it
Window(class, style, rect, zoomed, visible, iconic) ==
    [is_window |-> TRUE, visible |-> visible, iconic |-> iconic, class |-> class,
     style |-> style, has_rect |-> TRUE, rect |-> rect, zoomed |-> zoomed,
     has_monitor |-> TRUE, monitor |-> MonitorRect, fault |-> "none"]

\* the style bit WS_BORDER, 0x00800000: one of the two bits of WS_CAPTION
WS_BORDER == (WS_CAPTION \div 3) * 2

\* the desktop shell; an overlapped window, normal and maximized; borderless
\* windows covering the monitor exactly, within the tolerance and just
\* outside it; a thin-bordered popup covering the monitor; a covering
\* window that is minimized; one that is hidden
WindowKinds ==
    {Window("Progman", 0, Inset(0), FALSE, TRUE, FALSE),
     Window("Notepad", WS_CAPTION + WS_THICKFRAME, Inset(10), FALSE, TRUE, FALSE),
     Window("Notepad", WS_CAPTION + WS_THICKFRAME, Inset(0), TRUE, TRUE, FALSE),
     Window("Game", 0, Inset(0), FALSE, TRUE, FALSE),
     Window("Game", 0, Inset(tolerance), FALSE, TRUE, FALSE),
     Window("Game", 0, Inset(tolerance + 1), FALSE, TRUE, FALSE),
     Window("Player", WS_BORDER, Inset(0), FALSE, TRUE, FALSE),
     Window("Game", 0, Inset(0), FALSE, TRUE, TRUE),
     Window("Game", 0, Inset(0), FALSE, FALSE, FALSE)}

WindowStacks == UNION {[1..n -> WindowKinds] : n \in 0..MaxWindows}

InitDisplay ==
    /\ SMIdle
    /\ screen = WideScreen
    /\ mgr = NewManager(FALSE)
    /\ pets = <<>>
    /\ pet = [i \in PetIds |-> NoPet]
    /\ n_objects = 0
    /\ is_quitting = FALSE
    /\ last = NoOp
    /\ prev = pet
    /\ \E z \in WindowStacks : \E f \in 0..Len(z) :
           win = [NoWindows EXCEPT !.zorder = z, !.foreground = f]

NextDisplay ==
    \/ CreatePet
    \/ OnSetDisplayMode
    \/ ApplyDisplayPolicy

SpecDisplay == InitDisplay /\ [][NextDisplay]_vars

(***************************************************************************)
(* SpecPet: one pet driven by its input handlers, its IdleController       *)
(* timers and the settings applied to it.                                  *)
(***************************************************************************)
NextPet ==
    \/ CreatePet
    \/ MousePress
    \/ MouseRelease
    \/ OnToggleMoveCurrent
    \/ OnSetFollow
    \/ OnSetMoveEnabledAll
    \/ RestDecisionTimeout
    \/ RestEndTimeout

SpecPet == Init /\ [][NextPet]_vars

(***************************************************************************)
(* SpecIdle: the life of a pet from construction to teardown: the actions  *)
(* of SpecPet and the context-menu close of a pet.                         *)
(***************************************************************************)
NextIdle ==
    \/ NextPet
    \/ CloseCurrentPet

SpecIdle == Init /\ [][NextIdle]_vars

(***************************************************************************)
(* SpecSpawn: raising the instance count from one pet that has been        *)
(* dragged somewhere on the screen.                                        *)
(***************************************************************************)
\* where the first pet stands: its initial place, the corners, and places
\* from which the candidate grid wraps around the available rectangle
SpawnXs == {0, place_initial_x, 46, 70, WideScreenW - MoveFrameW - 1}
SpawnYs == {0, 31, place_initial_y, WideScreenH - MoveFrameH - 1}

InitSpawn ==
    /\ SMIdle
    /\ screen = WideScreen
    /\ mgr = [NewManager(FALSE) EXCEPT !.target_count = 1,
                                       !.settings_store.instance_count = 1]
    /\ pets = <<1>>
    /\ \E x \in SpawnXs, y \in SpawnYs :
           pet = [i \in PetIds |->
                    IF i = 1
                    THEN [GeoPet(x, y, "move", <<10, 0>>, FALSE) EXCEPT
                              !.force_topmost_for_multi = FALSE]
                    ELSE NoPet]
    /\ n_objects = 1
    /\ is_quitting = FALSE
    /\ last = NoOp
    /\ prev = pet
    /\ win = NoWindows

NextSpawn ==
    \/ OnSetInstanceCount
    \/ OnSetScale

SpecSpawn == InitSpawn /\ [][NextSpawn]_vars

(***************************************************************************)
(* SpecShadow: the moves forced on a pet from outside its own tick: the    *)
(* placement of a spawned pet, a scale change, a drag of the spawned pet,   *)
(* a collision push and the clamp on window deactivation, from one pet at  *)
(* its initial place.                                                      *)
(***************************************************************************)
InitShadow ==
    /\ InitSpawn
    /\ pet[1].x = place_initial_x
    /\ pet[1].y = place_initial_y

\* where a drag takes the window: off the screen at a corner, and onto the
\* initial place of a pet
DragTargets ==
    {<<-3, -2>>, <<place_initial_x + 2, place_initial_y + 1>>}

\* input.handle_mouse_move while dragging: the window moves with the mouse
\* and is clamped to the screen
MouseMove ==
    \E id \in Registered, t \in DragTargets :
        /\ pet[id].state.is_dragging
        /\ pet' = [pet EXCEPT ![id] = constrain_to_screen([pet[id] EXCEPT !.x = t[1], !.y = t[2]])]
        /\ last' = [NoOp EXCEPT !.op = "mouse_move", !.arg = id]
        /\ UNCHANGED <<sm_vars, win, screen, mgr, pets, n_objects, is_quitting, prev>>

\* on_set_instance_count(2): a second pet is spawned next to the first
SpawnSecond == OnSetInstanceCount /\ last'.arg = 2

\* the user drags the spawned pet
PressSecond == MousePress /\ last'.arg = 2

\* a mouse release whose rest attempt fails the probability check
ReleaseNoRest == MouseRelease /\ last'.sample = REST_CHANCE_WHEN_STOPPED + 1

NextShadow ==
    \/ SpawnSecond
    \/ OnSetScale
    \/ PressSecond
    \/ MouseMove
    \/ ReleaseNoRest
    \/ ResolvePetCollisions
    \/ WindowDeactivate

SpecShadow == InitShadow /\ [][NextShadow]_vars

(***************************************************************************)
(* SpecLocal: what the user does to one pet among two: a drag (press,      *)
(* move, release) and the move toggle of the context menu.                 *)
(***************************************************************************)
\* a mouse release whose rest attempt passes the probability check
ReleaseRest == MouseRelease /\ last'.sample = 0

NextLocal ==
    \/ SpawnSecond
    \/ MousePress
    \/ MouseMove
    \/ ReleaseRest
    \/ ReleaseNoRest
    \/ OnToggleMoveCurrent

SpecLocal == InitShadow /\ [][NextLocal]_vars

(***************************************************************************)
(* SpecTick: the tick timer of one pet on a screen a little larger than    *)
(* its window while the user drags it, switches follow and move, and its   *)
(* rest timers fire.  The autonomous step keeps the speed the pet has.     *)
(***************************************************************************)
\* a screen three pixels wider and two higher than the window
TickScreen == [x |-> 0, y |-> 0, w |-> MoveFrameW + 3, h |-> MoveFrameH + 2]

\* a cursor whose target the window can reach, and one whose target lies
\* beyond the right edge
TickCursors ==
    {<<MoveFrameW \div 2 + 1, MoveFrameH \div 2 + 1>>,
     <<MoveFrameW + 3, MoveFrameH \div 2 + 1>>}

InitTick ==
    /\ SMIdle
    /\ screen = TickScreen
    /\ \E follow \in BOOLEAN :
           /\ mgr = NewManager(follow)
           /\ pet = [i \in PetIds |->
                       IF i = 1
                       THEN constrain_to_screen(
                               apply_follow_enabled(
                                   [GeoPet(RectLeft(screen), RectTop(screen), "move",
                                           <<10, 0>>, FALSE)
                                       EXCEPT !.force_topmost_for_multi = FALSE], follow))
                       ELSE NoPet]
    /\ pets = <<1>>
    /\ n_objects = 1
    /\ is_quitting = FALSE
    /\ last = NoOp
    /\ prev = pet
    /\ \E c \in TickCursors : win = [NoWindows EXCEPT !.cursor = c]

\* a tick that does not redraw the velocity
TickSameSpeed ==
    /\ Tick
    /\ \A i \in Registered :
           /\ Abs(pet'[i].velocity_x) = Abs(pet[i].velocity_x)
           /\ Abs(pet'[i].velocity_y) = Abs(pet[i].velocity_y)

NextTick ==
    \/ TickSameSpeed
    \/ MousePress
    \/ ReleaseRest
    \/ ReleaseNoRest
    \/ OnSetFollow
    \/ OnToggleMoveCurrent
    \/ RestDecisionTimeout
    \/ RestEndTimeout

SpecTick == InitTick /\ [][NextTick]_vars

(***************************************************************************)
(* SpecSpawnLoop: on_set_instance_count one loop iteration at a time, with *)
(* a spawn factory that may do anything a callable can: return None, build *)
(* a new pet (registered by the factory, as main.py's create_pet does, or  *)
(* left to the loop to register), or return a pet that is registered       *)
(* already.  While the handler runs nothing else does; the loop and the    *)
(* code after it are straight-line code, hence the weak fairness.          *)
(***************************************************************************)
\* the number of factory calls of one loop is counted modulo MaxCalls
MaxCalls == 3

FactoryKinds == {"none", "new", "registered"}

InSpawnLoop == last.op = "spawn_loop"

\* on_set_instance_count up to the loop: the target is clamped and stored
SetCountEnter ==
    \E count \in CountInputs :
        LET target == Clamp(INSTANCE_COUNT_MIN, INSTANCE_COUNT_MAX, count)
        IN  /\ ~InSpawnLoop
            /\ mgr' = [mgr EXCEPT !.target_count = target,
                                  !.settings_store.instance_count = target]
            /\ last' = [NoOp EXCEPT !.op = "spawn_loop", !.arg = count]
            /\ UNCHANGED <<sm_vars, win, screen, pets, pet, n_objects, is_quitting, prev>>

\* the code after the loop: the excess is closed and the count announced
AfterSpawnLoop(short) ==
    LET excess == Max(0, Len(pets) - mgr.target_count)
    IN  \E S \in {T \in SUBSET Registered : Cardinality(T) = excess} :
        \E c \in {close_pet_instances(pet, pets, S)} :
            /\ pet' = c.P
            /\ pets' = c.regs
            /\ last' = [NoOp EXCEPT !.op = "on_set_instance_count", !.arg = last.arg,
                                    !.short = short, !.closed = Cardinality(S),
                                    !.trace = c.trace,
                                    !.emit = Emitted("instance_count_changed",
                                                     Stored(mgr, "instance_count",
                                                            mgr.target_count),
                                                     c.P, c.P)]
            /\ UNCHANGED <<sm_vars, win, screen, mgr, n_objects, is_quitting, prev>>

\* one iteration of the loop: the factory is called and what it returns is
\* registered unless it is None (the loop is left) or in the registry
SpawnCall ==
    /\ InSpawnLoop
    /\ Len(pets) < mgr.target_count
    /\ mgr.spawn_callback
    /\ \E kind \in FactoryKinds :
           CASE kind = "none" -> AfterSpawnLoop(TRUE)
             [] kind = "new" ->
                  /\ n_objects < MaxPetObjects
                  /\ \E draw \in (IF mgr.move_enabled THEN {FALSE} ELSE BOOLEAN) :
                     \E r \in {register_pet(mgr, [pet EXCEPT ![n_objects + 1] = NewDesktopPet],
                                             pets, n_objects + 1, draw)} :
                         /\ pet' = r.P
                         /\ pets' = r.regs
                  /\ n_objects' = n_objects + 1
                  /\ last' = [last EXCEPT !.spawned = (@ + 1) % MaxCalls]
                  /\ UNCHANGED <<sm_vars, win, screen, mgr, is_quitting, prev>>
             [] kind = "registered" ->
                  /\ \E id \in Registered :
                         \E r \in {register_pet(mgr, pet, pets, id, FALSE)} :
                             /\ pet' = r.P
                             /\ pets' = r.regs
                  /\ last' = [last EXCEPT !.spawned = (@ + 1) % MaxCalls]
                  /\ UNCHANGED <<sm_vars, win, screen, mgr, n_objects, is_quitting, prev>>

\* the loop condition fails, or there is no factory
SpawnLoopExit ==
    /\ InSpawnLoop
    /\ ~(Len(pets) < mgr.target_count /\ mgr.spawn_callback)
    /\ AfterSpawnLoop(Len(pets) < mgr.target_count)

NextSpawnLoop ==
    \/ SetCountEnter
    \/ SpawnCall
    \/ SpawnLoopExit

SpecSpawnLoop ==
    /\ InitSpawn
    /\ [][NextSpawnLoop]_vars
    /\ WF_vars(SpawnCall)
    /\ WF_vars(SpawnLoopExit)

(***************************************************************************)
(* SpecRest: SpecIdle with the rest-end timer of every pet firing once it  *)
(* is armed (a started QTimer fires when its interval has elapsed).        *)
(***************************************************************************)
SpecRest ==
    /\ Init
    /\ [][NextIdle]_vars
    /\ \A i \in PetIds : WF_vars(RestEndTimeout /\ last'.arg = i)

(***************************************************************************)
(* SpecPolicy: the display policy while the user switches windows and      *)
(* sends pets to the tray.                                                 *)
(***************************************************************************)
\* the user activates the window at h: it becomes the foreground window and
\* moves to the top of the z-order
ActivateWindow ==
    \E h \in 1..Len(win.zorder) :
        /\ win' = [win EXCEPT !.foreground = 1,
                              !.zorder = <<win.zorder[h]>> \o
                                  [k \in 1..(Len(win.zorder) - 1) |->
                                      win.zorder[IF k < h THEN k ELSE k + 1]]]
        /\ last' = [NoOp EXCEPT !.op = "activate_window", !.arg = h]
        /\ UNCHANGED <<sm_vars, screen, mgr, pets, pet, n_objects, is_quitting, prev>>

\* DesktopPet.closeEvent with the close policy deciding "tray": the event is
\* ignored and the pet hidden
CloseEventTray ==
    \E id \in Registered :
        /\ ~pet[id].is_exiting
        /\ pet' = [pet EXCEPT ![id] = hide(pet[id])]
        /\ last' = [NoOp EXCEPT !.op = "close_event_tray", !.arg = id]
        /\ UNCHANGED <<sm_vars, win, screen, mgr, pets, n_objects, is_quitting>>
        /\ UNCHANGED prev

\* the desktop shell, an overlapped window and a borderless window covering
\* the monitor
PolicyKinds ==
    {Window("Progman", 0, Inset(0), FALSE, TRUE, FALSE),
     Window("Notepad", WS_CAPTION + WS_THICKFRAME, Inset(10), FALSE, TRUE, FALSE),
     Window("Game", 0, Inset(0), FALSE, TRUE, FALSE)}

\* the manager constructed over a settings store holding display mode mode,
\* with some of the three windows open, in any z-order
InitPolicy ==
    /\ SMIdle
    /\ screen = WideScreen
    /\ \E mode \in DisplayModes :
           mgr = [NewManager(FALSE) EXCEPT !.display_mode = mode,
                                           !.settings_store.display_mode = mode]
    /\ pets = <<>>
    /\ pet = [i \in PetIds |-> NoPet]
    /\ n_objects = 0
    /\ is_quitting = FALSE
    /\ last = NoOp
    /\ prev = pet
    /\ \E z \in UNION {[1..n -> PolicyKinds] : n \in 1..MaxWindows} :
           /\ \A a, b \in 1..Len(z) : z[a] = z[b] => a = b
           /\ win = [NoWindows EXCEPT !.zorder = z, !.foreground = 1]

NextPolicy ==
    \/ CreatePet
    \/ SpawnToMax
    \/ OnSetDisplayMode
    \/ ApplyDisplayPolicy
    \/ ActivateWindow
    \/ CloseEventTray

SpecPolicy == InitPolicy /\ [][NextPolicy]_vars

(***************************************************************************)
(* SpecProbe: the display policy when user32 is missing or one of its      *)
(* calls goes wrong on a window.                                           *)
(***************************************************************************)
\* the window w on which the call named by fault goes wrong
Faulty(w, fault) == [w EXCEPT !.fault = fault]

\* the desktop shell and a borderless window covering the monitor, each as
\* it is and with the class name read returning 0; the covering window with
\* the class name read, the rectangle read and the style read raising; a
\* maximized overlapped window whose IsZoomed raises; a covering window
\* whose GetWindowRect returns 0; a stale handle
ProbeKinds ==
    {Window("Progman", 0, Inset(0), FALSE, TRUE, FALSE),
     Faulty(Window("Progman", 0, Inset(0), FALSE, TRUE, FALSE), "class_zero"),
     Window("Game", 0, Inset(0), FALSE, TRUE, FALSE),
     Faulty(Window("Game", 0, Inset(0), FALSE, TRUE, FALSE), "class_zero"),
     Faulty(Window("Game", 0, Inset(0), FALSE, TRUE, FALSE), "class_raises"),
     Faulty(Window("Game", 0, Inset(0), FALSE, TRUE, FALSE), "rect_raises"),
     Faulty(Window("Notepad", WS_CAPTION + WS_THICKFRAME, Inset(0), FALSE, TRUE, FALSE),
            "style_raises"),
     Faulty(Window("Notepad", WS_CAPTION + WS_THICKFRAME, Inset(0), TRUE, TRUE, FALSE),
            "zoomed_raises"),
     [Window("Game", 0, Inset(0), FALSE, TRUE, FALSE) EXCEPT !.has_rect = FALSE],
     [Window("Game", 0, Inset(0), FALSE, TRUE, FALSE) EXCEPT !.is_window = FALSE]}

ProbeStacks == UNION {[1..n -> ProbeKinds] : n \in 0..MaxWindows}

InitProbe ==
    /\ SMIdle
    /\ screen = WideScreen
    /\ mgr = NewManager(FALSE)
    /\ pets = <<>>
    /\ pet = [i \in PetIds |-> NoPet]
    /\ n_objects = 0
    /\ is_quitting = FALSE
    /\ last = NoOp
    /\ prev = pet
    /\ \/ win = NoWindows
       \/ \E z \in ProbeStacks : \E f \in 0..Len(z) :
              win = [NoWindows EXCEPT !.zorder = z, !.foreground = f]

SpecProbe == InitProbe /\ [][NextDisplay]_vars

(***************************************************************************)
(* SpecShutdown: the registry operations, the quit request and the two     *)
(* periodic tasks of the manager (display policy, collision resolution).   *)
(***************************************************************************)
NextShutdown ==
    \/ CreatePet
    \/ OnSetInstanceCount
    \/ CloseCurrentPet
    \/ RequestQuit
    \/ ApplyDisplayPolicy
    \/ ResolvePetCollisions

SpecShutdown == Init /\ [][NextShutdown]_vars

(***************************************************************************)
(* Properties                                                              *)
(***************************************************************************)

\* C1: state_key() returns "drag" if is_dragging, else "follow" if
\* follow_mouse, else "rest" if in_rest, else "move", for every combination
\* of the four flags, and leaves the flags as they were.
C1_StateKeyPriority ==
    sm_call[1] = "state_key" =>
        /\ sm = sm_prev
        /\ sm.is_dragging => sm_ret = "drag"
        /\ (~sm.is_dragging /\ sm.follow_mouse) => sm_ret = "follow"
        /\ (~sm.is_dragging /\ ~sm.follow_mouse /\ sm.in_rest) => sm_ret = "rest"
        /\ (~sm.is_dragging /\ ~sm.follow_mouse /\ ~sm.in_rest) => sm_ret = "move"

\* state_key() was called on a following, resting, immobile state machine
C1_Witness ==
    /\ sm_call[1] = "state_key"
    /\ ~sm.is_dragging /\ sm.follow_mouse /\ sm.in_rest /\ ~sm.move_enabled
    /\ sm_ret = "follow"

\* C2: after set_follow_mouse(true) returns, move_enabled is true and
\* in_rest is false, whatever the flags were before.
C2_FollowEnablesMove ==
    sm_call = <<"set_follow_mouse", TRUE>> => (sm.move_enabled /\ ~sm.in_rest)

\* set_follow_mouse(true) was called on a resting state machine with
\* movement disabled
C2_Witness ==
    /\ sm_call = <<"set_follow_mouse", TRUE>>
    /\ ~sm_prev.move_enabled /\ sm_prev.in_rest
    /\ sm.follow_mouse

BroadcastSetters ==
    {"on_set_follow", "on_set_move_enabled_all", "on_set_scale",
     "on_set_opacity_percent", "on_set_language"}

\* C3: right after a broadcast setter returns, every registered pet's own
\* value of the field that was set equals the manager's new value.
C3_BroadcastApplied ==
    \A i \in Registered :
        /\ last.op = "on_set_follow" => pet[i].state.follow_mouse = mgr.follow_mouse
        /\ last.op = "on_set_move_enabled_all" => pet[i].state.move_enabled = mgr.move_enabled
        /\ last.op = "on_set_scale" => pet[i].scale_factor = mgr.scale_factor
        /\ last.op = "on_set_opacity_percent" => pet[i].opacity_percent = mgr.opacity_percent
        /\ last.op = "on_set_language" => pet[i].language = mgr.language

\* on_set_scale has set a scale above SCALE_MAX on two registered pets, one
\* of which had its move switch turned off locally
C3_Witness ==
    /\ last.op = "on_set_scale"
    /\ Len(pets) = 2
    /\ mgr.scale_factor > SCALE_MAX
    /\ \E i \in Registered : pet[i].state.move_enabled # mgr.move_enabled

SameSharedFields(p, m) ==
    /\ p.state.follow_mouse = m.follow_mouse
    /\ p.state.move_enabled = m.move_enabled
    /\ p.scale_factor = m.scale_factor
    /\ p.opacity_percent = m.opacity_percent
    /\ p.language = m.language

\* C4: after any broadcast setter returns, every registered pet's copy of
\* every shared field (follow, move-enabled, scale, opacity, language)
\* equals the manager's copy.
C4_AllSharedFieldsEqual ==
    last.op \in BroadcastSetters =>
        \A i \in Registered : SameSharedFields(pet[i], mgr)

\* C5: when register_pet returns for a new pet, the pet's move_enabled,
\* follow_mouse, scale, opacity and language equal the manager's shared
\* values and those of the pets registered before it.
C5_JoinsConsistent ==
    (last.op \in {"create_pet", "on_set_instance_count"} /\ last.spawned > 0) =>
        \A k \in (Len(pets) - last.spawned + 1)..Len(pets) :
            /\ SameSharedFields(pet[pets[k]], mgr)
            /\ \A j \in 1..(k - 1) :
                /\ pet[pets[j]].state.follow_mouse = pet[pets[k]].state.follow_mouse
                /\ pet[pets[j]].state.move_enabled = pet[pets[k]].state.move_enabled

TornDownOnce(p) == p.n_prepare = 1 /\ p.n_close = 1 /\ p.n_delete = 1
NeverTornDown(p) == p.n_prepare = 0 /\ p.n_close = 0 /\ p.n_delete = 0

\* C6: with a spawn factory that delivers, on_set_instance_count(n) leaves
\* exactly clamp(n, INSTANCE_COUNT_MIN, INSTANCE_COUNT_MAX) registered pets
\* and target_count equal to that number, whether it had to spawn or to
\* despawn; every pet that was removed has received its teardown sequence
\* exactly once and no registered pet has received one.
C6_CountReached ==
    /\ (last.op = "on_set_instance_count" /\ ~last.short) =>
          /\ Len(pets) = Clamp(INSTANCE_COUNT_MIN, INSTANCE_COUNT_MAX, last.arg)
          /\ mgr.target_count = Len(pets)
    /\ \A i \in PetIds :
          pet[i].exists =>
              IF i \in Registered THEN NeverTornDown(pet[i]) ELSE TornDownOnce(pet[i])

\* on_set_instance_count(1) has despawned one of two pets
C6_Witness ==
    /\ last.op = "on_set_instance_count"
    /\ last.arg = 1
    /\ last.closed = 1
    /\ Len(pets) = 1
    /\ \E i \in PetIds : pet[i].exists /\ i \notin Registered /\ TornDownOnce(pet[i])

\* C7: whenever a despawn by on_set_instance_count or close_random_pets
\* empties the registry, the exit callback request_quit is invoked.
C7_QuitWhenEmptied ==
    (/\ last.op \in {"on_set_instance_count", "close_random_pets"}
     /\ last.closed > 0
     /\ pets = <<>>) => is_quitting

\* the last collision pass started with both pets free and their frames
\* intersecting, and no screen clamp changed a pushed position
CollidedFree ==
    /\ last.op = "resolve_pet_collisions"
    /\ ~last.clamped
    /\ ~prev[1].state.is_dragging /\ ~prev[2].state.is_dragging
    /\ intersects(frameGeometry(prev[1]), frameGeometry(prev[2]))

Bounced(i) ==
    /\ pet[i].velocity_x = -prev[i].velocity_x
    /\ pet[i].velocity_y = -prev[i].velocity_y
    /\ pet[i].facing_left = (pet[i].velocity_x < 0)

\* C8: two registered, non-dragging pets whose frames intersect, on a screen
\* where clamping does not undo the push: after one collision pass their
\* frames no longer intersect, both velocities are negated on both axes and
\* each facing_left matches the sign of the new velocity_x.
C8_SeparatedAfterOnePass ==
    CollidedFree =>
        /\ ~intersects(frameGeometry(pet[1]), frameGeometry(pet[2]))
        /\ Bounced(1)
        /\ Bounced(2)

\* C9: a collision pass leaves a dragging pet exactly as it was, and leaves
\* a free pet as it was when the only pet it could collide with is dragging.
C9_DraggingPairsSkipped ==
    last.op = "resolve_pet_collisions" =>
        \A i \in Registered :
            /\ prev[i].state.is_dragging => pet[i] = prev[i]
            /\ (\A j \in Registered \ {i} : prev[j].state.is_dragging) => pet[i] = prev[i]

\* a collision pass ran over a free pet whose frame intersected the frame
\* of a dragging pet
C9_Witness ==
    /\ last.op = "resolve_pet_collisions"
    /\ ~prev[1].state.is_dragging /\ prev[2].state.is_dragging
    /\ intersects(frameGeometry(prev[1]), frameGeometry(prev[2]))
    /\ pet[1].x = prev[1].x /\ pet[1].velocity_x = prev[1].velocity_x

\* C10: after constrain_to_screen() the pet's frame lies inside the
\* available rectangle of its screen, for a window no larger than it.
C10_ContainedAfterConstrain ==
    (/\ last.op = "constrain_to_screen"
     /\ pet[last.arg].w <= screen.w
     /\ pet[last.arg].h <= screen.h) =>
        RectContains(screen, frameGeometry(pet[last.arg]))

\* the seven broadcast setters of the manager
SetterOps ==
    {"on_set_follow", "on_set_scale", "on_set_autostart", "on_set_opacity_percent",
     "on_set_display_mode", "on_set_move_enabled_all", "on_set_language"}

\* C11: every broadcast setter persists the new value, applies it to every
\* registered pet and only then emits its change signal: when the signal is
\* emitted the value is in its store and no registered pet is changed by the
\* setter afterwards.
C11_PersistApplyEmit ==
    last.op \in SetterOps =>
        /\ last.emit.signal # "none"
        /\ last.emit.persisted
        /\ last.emit.applied

\* the calls that tear a pet down
TeardownCalls == {"prepare_for_exit", "close", "deleteLater"}

\* the step at position k of the last operation is preceded by the step call
\* on the same pet
Preceded(k, call) ==
    \E j \in 1..(k - 1) : last.trace[j].ev = call /\ last.trace[j].id = last.trace[k].id

\* C12: a teardown runs in the order unregister, stop timers and local
\* cleanup (prepare_for_exit), close, release (deleteLater): the pet has left
\* the registry when each of the three calls starts, and its timers are
\* stopped when close and deleteLater start.
C12_TeardownOrder ==
    \A k \in 1..Len(last.trace) :
        LET e == last.trace[k]
        IN  /\ e.ev \in TeardownCalls => ~e.registered
            /\ e.ev = "prepare_for_exit" =>
                   \E j \in 1..(k - 1) :
                       \/ last.trace[j].ev = "unregister_pet" /\ last.trace[j].id = e.id
                       \/ last.trace[j].ev = "clear"
            /\ e.ev = "close" => Preceded(k, "prepare_for_exit") /\ ~e.timers
            /\ e.ev = "deleteLater" => Preceded(k, "close") /\ ~e.timers

\* a pet with a running timer was closed while another stayed registered
C12_Witness ==
    /\ last.op \in {"close_current_pet", "close_random_pets", "on_set_instance_count"}
    /\ Len(last.trace) = 4
    /\ last.trace[1].ev = "unregister_pet" /\ last.trace[1].registered /\ last.trace[1].timers
    /\ last.trace[4].ev = "deleteLater"
    /\ pets # <<>>

\* C13: a pet's private timers are stopped before the pet is removed from
\* the registry, and no pet that was torn down has a timer running.
C13_TimersStoppedBeforeRemoval ==
    /\ \A k \in 1..Len(last.trace) :
           last.trace[k].ev \in {"unregister_pet", "clear"} => ~last.trace[k].timers
    /\ \A i \in PetIds :
           pet[i].n_prepare > 0 =>
               ~(pet[i].tick_timer \/ pet[i].rest_decision_timer \/ pet[i].rest_end_timer)

\* C14: shutdown stops the display timer and the collision timer before it
\* tears any pet down; from then on the registry is empty, neither periodic
\* task runs, and on_set_instance_count spawns nothing.
C14_ShutdownIsFinal ==
    /\ last.op = "request_quit" =>
           \A k \in 1..Len(last.trace) :
               last.trace[k].ev \in TeardownCalls =>
                   /\ \E j \in 1..(k - 1) : last.trace[j].ev = "stop_display_timer"
                   /\ \E j \in 1..(k - 1) : last.trace[j].ev = "stop_collision_timer"
    /\ is_quitting =>
           /\ pets = <<>>
           /\ ~mgr.display_timer /\ ~mgr.collision_timer
           /\ last.op \notin {"apply_display_policy", "resolve_pet_collisions"}
           /\ last.op = "on_set_instance_count" => last.spawned = 0

\* after a shutdown that tore pets down, on_set_instance_count asked for
\* pets and the registry stayed empty
C14_Witness ==
    /\ is_quitting
    /\ last.op = "on_set_instance_count" /\ last.arg >= 1 /\ last.short
    /\ pets = <<>>
    /\ \E i \in PetIds : pet[i].n_delete = 1

C16_RegistryIsOrderedSet ==
    /\ [](\A i, j \in 1..Len(pets) : i < j => pets[i] < pets[j])
    /\ [][(\/ last'.op = "register_pet" /\ (last'.arg = None \/ last'.arg \in Registered)
           \/ last'.op = "unregister_pet" /\ last'.arg \notin Registered)
              => (pets' = pets /\ pet' = pet /\ mgr' = mgr)]_vars

\* register_pet was called for one of two registered pets
C16_Witness ==
    /\ last.op = "register_pet"
    /\ last.arg \in Registered
    /\ pets = <<1, 2>>

\* C17: when the spawn factory gives out before the target is reached,
\* on_set_instance_count still returns normally: the pets registered before
\* and those spawned so far are registered, in that order, none is closed,
\* target_count keeps the clamped requested value (above the registry size)
\* and instance_count_changed is emitted.
C17_FactoryGivesOut ==
    [][(last'.op = "on_set_instance_count" /\ last'.short) =>
          /\ mgr'.target_count = Max(INSTANCE_COUNT_MIN, Min(INSTANCE_COUNT_MAX, last'.arg))
          /\ Len(pets') = Len(pets) + last'.spawned
          /\ SubSeq(pets', 1, Len(pets)) = pets
          /\ Len(pets') < mgr'.target_count
          /\ last'.closed = 0
          /\ last'.emit.signal = "instance_count_changed"]_vars

\* the factory delivered one pet of the two asked for
C17_Witness ==
    /\ last.op = "on_set_instance_count"
    /\ last.short
    /\ last.spawned = 1
    /\ Len(pets) = 1
    /\ mgr.target_count = 2
    /\ last.emit.signal = "instance_count_changed"

\* C18: after every register_pet, unregister_pet and close, each registered
\* pet's forced-topmost flag equals (registry size >= 2) and its window's
\* stays-on-top flag equals (always-on-top preference or forced flag); with
\* fewer than two pets the forced flag is off and the preference alone
\* decides the window flag.
C18_TopmostPolicy ==
    \A i \in Registered :
        /\ pet[i].force_topmost_for_multi = (Len(pets) >= 2)
        /\ pet[i].stays_on_top = (pet[i].always_on_top \/ pet[i].force_topmost_for_multi)
        /\ Len(pets) < 2 =>
               ~pet[i].force_topmost_for_multi /\ pet[i].stays_on_top = pet[i].always_on_top

\* one of two pets was closed under display mode desktop_only: the pet left
\* has lost the forced flag
C18_Witness ==
    /\ last.op = "close_current_pet"
    /\ last.closed = 1
    /\ Len(pets) = 1
    /\ mgr.display_mode = DISPLAY_MODE_DESKTOP_ONLY
    /\ ~pet[pets[1]].force_topmost_for_multi
    /\ pet[pets[1]].stays_on_top

\* the foreground window, when user32 reports one that exists, is visible
\* and is not minimized
ValidForeground ==
    /\ win.user32
    /\ win.foreground # 0
    /\ win.zorder[win.foreground].is_window
    /\ win.zorder[win.foreground].visible
    /\ ~win.zorder[win.foreground].iconic

\* C19: the visibility decision of a poll is true in always_on_top mode
\* whatever the foreground window is; in desktop_only mode with a valid
\* foreground window it is true iff that window's class is a desktop shell
\* class, and every registered pet is shown or hidden accordingly.
C19_DesktopOnlyDecision ==
    last.op = "apply_display_policy" =>
        /\ mgr.display_mode = DISPLAY_MODE_ALWAYS_ON_TOP =>
               mgr.last_should_show /\ \A i \in Registered : pet[i].visible
        /\ (mgr.display_mode = DISPLAY_MODE_DESKTOP_ONLY /\ ValidForeground) =>
               /\ mgr.last_should_show =
                      (win.zorder[win.foreground].class \in {"Progman", "WorkerW"})
               /\ \A i \in Registered : pet[i].visible = mgr.last_should_show

\* a poll in desktop_only mode found an application window in the
\* foreground and hid the pet
C19_Witness ==
    /\ last.op = "apply_display_policy"
    /\ mgr.display_mode = DISPLAY_MODE_DESKTOP_ONLY
    /\ ValidForeground
    /\ win.zorder[win.foreground].class = "Notepad"
    /\ pets = <<1>>
    /\ ~pet[1].visible

\* the windows a fullscreen_hide poll may choose from: existing, visible,
\* not minimized, not of a desktop shell class
Eligible ==
    {h \in 1..Len(win.zorder) :
        /\ win.zorder[h].is_window /\ win.zorder[h].visible /\ ~win.zorder[h].iconic
        /\ win.zorder[h].class \notin {"Progman", "WorkerW"}}

\* a window has a title bar when both bits of WS_CAPTION are set, a resize
\* border when WS_THICKFRAME is set
HasTitleBar(w) == BitAnd(w.style, WS_CAPTION) = WS_CAPTION
HasResizeBorder(w) == BitAnd(w.style, WS_THICKFRAME) = WS_THICKFRAME

\* the window's rectangle covers its monitor's within the tolerance
CoversMonitor(w) ==
    /\ w.has_rect /\ w.has_monitor
    /\ w.rect.left <= w.monitor.left + tolerance
    /\ w.rect.top <= w.monitor.top + tolerance
    /\ w.rect.right >= w.monitor.right - tolerance
    /\ w.rect.bottom >= w.monitor.bottom - tolerance

\* the topmost eligible window covers its monitor without title bar or
\* resize border, or is maximized
TopWindowBlocks ==
    /\ Eligible # {}
    /\ LET w == win.zorder[CHOOSE h \in Eligible : \A other \in Eligible : h <= other]
       IN  \/ CoversMonitor(w) /\ ~HasTitleBar(w) /\ ~HasResizeBorder(w)
           \/ w.zoomed

\* C20: in fullscreen_hide mode a poll hides the pets iff the topmost
\* visible, non-minimized, non-desktop window covers its monitor's rectangle
\* within the tolerance while having neither title bar nor resize border, or
\* is maximized; otherwise it shows them.
C20_FullscreenHideDecision ==
    (last.op = "apply_display_policy" /\ mgr.display_mode = DISPLAY_MODE_FULLSCREEN_HIDE) =>
        /\ mgr.last_should_show = ~TopWindowBlocks
        /\ \A i \in Registered : pet[i].visible = ~TopWindowBlocks

\* the first window of the z-order that exists, is visible and is not
\* minimized: the first whose class name a fullscreen_hide poll reads
FirstCandidate ==
    CHOOSE h \in walk_candidates : \A other \in walk_candidates : h <= other

\* a call the poll makes under the manager's display mode went wrong or
\* found no window: user32 is missing; in desktop_only mode there is no
\* valid foreground window or its class name read returned 0 or raised; in
\* fullscreen_hide mode no window qualifies, or the class name read of the
\* first candidate returned 0 or raised, or the style read of the window
\* chosen raised
ProbeFailed ==
    \/ ~win.user32
    \/ /\ mgr.display_mode = DISPLAY_MODE_DESKTOP_ONLY
       /\ \/ ~ValidForeground
          \/ win.zorder[win.foreground].fault \in {"class_zero", "class_raises"}
    \/ /\ mgr.display_mode = DISPLAY_MODE_FULLSCREEN_HIDE
       /\ \/ Eligible = {}
          \/ win.zorder[FirstCandidate].fault \in {"class_zero", "class_raises"}
          \/ win.zorder[CHOOSE h \in Eligible : \A other \in Eligible : h <= other].fault
                 = "style_raises"

\* C21: when a window-system probe of a poll fails (raises or returns a
\* failure value) or finds no valid foreground/top window, the visibility
\* decision of the poll is true in every display mode and every registered
\* pet is shown.
C21_ProbeFailureShows ==
    (last.op = "apply_display_policy" /\ ProbeFailed) =>
        /\ mgr.last_should_show
        /\ \A i \in Registered : pet[i].visible

\* the pets registered by the operation just finished
JustRegistered ==
    {i \in Registered : n_objects - last.spawned < i /\ i <= n_objects}

C24_PressReleaseRest ==
    [][/\ last'.op = "mouse_press" =>
            \A id \in PetIds :
                (/\ id = last'.arg
                 /\ state_key(pet[id].state) = "move"
                 /\ ~pet[id].state.follow_mouse) =>
                    state_key(pet'[id].state) = "drag"
       /\ last'.op = "mouse_release" =>
            \A id \in PetIds :
                (/\ id = last'.arg
                 /\ state_key(pet[id].state) = "drag"
                 /\ ~pet[id].state.follow_mouse) =>
                    /\ last'.sample = 0 => state_key(pet'[id].state) = "rest"
                    /\ ~pet'[id].state.in_rest => state_key(pet'[id].state) = "move"
      ]_vars

\* a pet with move disabled was released with sample 0.0 and rests
C24_Witness ==
    /\ last.op = "mouse_release"
    /\ last.sample = 0
    /\ ~pet[last.arg].state.move_enabled
    /\ ~pet[last.arg].state.follow_mouse
    /\ state_key(pet[last.arg].state) = "rest"
    /\ pet[last.arg].rest_end_timer

\* C25: after a broadcast setter was called with any value, the manager's
\* target count, opacity percent and scale factor lie in their allowed
\* ranges, its display mode is one of the three modes, and each of the four
\* equals the value held by the settings store.
C25_SharedValuesInRange ==
    last.op \in SetterOps \cup {"on_set_instance_count"} =>
        /\ INSTANCE_COUNT_MIN <= mgr.target_count /\ mgr.target_count <= INSTANCE_COUNT_MAX
        /\ OPACITY_PERCENT_MIN <= mgr.opacity_percent
        /\ mgr.opacity_percent <= OPACITY_PERCENT_MAX
        /\ SCALE_MIN <= mgr.scale_factor /\ mgr.scale_factor <= SCALE_MAX
        /\ mgr.display_mode \in {DISPLAY_MODE_ALWAYS_ON_TOP, DISPLAY_MODE_FULLSCREEN_HIDE,
                                 DISPLAY_MODE_DESKTOP_ONLY}
        /\ mgr.target_count = mgr.settings_store.instance_count
        /\ mgr.opacity_percent = mgr.settings_store.opacity_percent
        /\ mgr.scale_factor = mgr.settings_store.scale_factor
        /\ mgr.display_mode = mgr.settings_store.display_mode

\* C26: in every state of a PetStateMachine reachable from its default
\* construction by its methods, follow_mouse implies move_enabled, and after
\* set_move_enabled(false) follow_mouse is clear.
C26_FollowImpliesMove ==
    /\ sm.follow_mouse => sm.move_enabled
    /\ sm_call = <<"set_move_enabled", FALSE>> => ~sm.follow_mouse

C26_Witness ==
    /\ sm_call = <<"set_move_enabled", FALSE>>
    /\ sm_prev.follow_mouse
    /\ ~sm.follow_mouse
    /\ ~sm.move_enabled

\* C27: in every reachable state of a pet driven by its mouse handlers, its
\* rest timers and the apply_* methods, in_rest implies that the pet is
\* neither dragged nor following; and a rest decision taken while the pet is
\* dragged, following or resting leaves in_rest as it was.
C27_RestExcludesDragFollow ==
    /\ [](\A i \in Registered :
            pet[i].state.in_rest => ~pet[i].state.is_dragging /\ ~pet[i].state.follow_mouse)
    /\ [][\A i \in Registered :
            (/\ last'.op = "try_enter_rest"
             /\ last'.arg = i
             /\ (pet[i].state.is_dragging \/ pet[i].state.follow_mouse \/ pet[i].state.in_rest))
            => pet'[i].state.in_rest = pet[i].state.in_rest]_vars

C27_Witness ==
    /\ last.op = "try_enter_rest"
    /\ last.arg \in Registered
    /\ pet[last.arg].state.is_dragging
    /\ ~pet[last.arg].state.in_rest
    /\ pet[last.arg].rest_end_timer

\* C28: a pet that was constructed and not yet torn down always has its
\* rest-decision timer armed, and every call of try_enter_rest (from the
\* timer or from a mouse release), whatever its outcome, leaves it armed.
C28_DecisionPending ==
    /\ \A i \in PetIds :
           pet[i].exists /\ ~pet[i].is_exiting => pet[i].rest_decision_timer
    /\ (last.op \in {"try_enter_rest", "mouse_release"} /\ last.arg \in Registered)
           => pet[last.arg].rest_decision_timer

C28_Witness ==
    /\ last.op = "try_enter_rest"
    /\ last.arg \in Registered
    /\ ~pet[last.arg].state.in_rest
    /\ ~pet[last.arg].state.is_dragging
    /\ ~pet[last.arg].state.follow_mouse
    /\ pet[last.arg].rest_decision_timer
    /\ ~pet[last.arg].state.move_enabled

\* C29: the one-shot rest-end timer is armed only while the pet rests: in
\* every reachable state, rest_end_timer armed implies in_rest, also after a
\* rest was interrupted by a drag, by follow or by a move toggle.
C29_EndTimerOnlyWhileResting ==
    \A i \in PetIds : pet[i].rest_end_timer => pet[i].state.in_rest

\* the window of pet i fits into the available rectangle
WindowFits(i) == pet[i].w <= screen.w /\ pet[i].h <= screen.h

\* C30: after every auto_move_tick of a window that fits, the position lies
\* between min and max on both axes, and on an axis where the tick clamped
\* the position the velocity points back into the rectangle.
C30_TickStaysInside ==
    (last.op = "auto_move_tick" /\ last.arg \in Registered /\ WindowFits(last.arg)) =>
        /\ RectLeft(screen) <= pet[last.arg].x
        /\ pet[last.arg].x <= RectRight(screen) - pet[last.arg].w
        /\ RectTop(screen) <= pet[last.arg].y
        /\ pet[last.arg].y <= RectBottom(screen) - pet[last.arg].h
        /\ last.edge_x = "min" => pet[last.arg].velocity_x > 0
        /\ last.edge_x = "max" => pet[last.arg].velocity_x < 0
        /\ last.edge_y = "min" => pet[last.arg].velocity_y > 0
        /\ last.edge_y = "max" => pet[last.arg].velocity_y < 0

\* the position the follow step asks for from the pet p: p's position moved
\* toward the target by at most the maximum follow step on each axis
FollowDesired(p) ==
    LET t == follow_target(p, win.cursor)
        m == follow_max_step(screen, p)
    IN  <<p.x + Clamp(-m, m, t[1] - p.x), p.y + Clamp(-m, m, t[2] - p.y)>>

\* a window of p's size at position d lies inside the available rectangle
FrameInside(p, d) ==
    RectContains(screen, [x |-> d[1], y |-> d[2], w |-> p.w, h |-> p.h])

\* the position nearest to d at which a window of p's size, no larger than
\* the available rectangle, lies inside it
FollowClamped(p, d) ==
    <<Clamp(RectLeft(screen), RectRight(screen) + 1 - p.w, d[1]),
      Clamp(RectTop(screen), RectBottom(screen) + 1 - p.h, d[2])>>

\* C31: follow_cursor_tick returns moved = TRUE iff the desired position,
\* clamped into the available rectangle, differs from the current position,
\* and blocked_by_edge = TRUE iff the unclamped desired position lies outside
\* the rectangle; the window position changes only when moved is TRUE, and
\* then by at most the maximum follow step on each axis.
C31_FollowTickResult ==
    (/\ last.op = "tick" /\ last.branch = "follow"
     /\ last.arg \in Registered /\ WindowFits(last.arg)) =>
        LET p == prev[last.arg]
            q == pet[last.arg]
            d == FollowDesired(p)
            m == follow_max_step(screen, p)
        IN  /\ last.moved = (FollowClamped(p, d) # <<p.x, p.y>>)
            /\ last.blocked = ~FrameInside(p, d)
            /\ (<<q.x, q.y>> # <<p.x, p.y>>) => last.moved
            /\ q.x - p.x <= m /\ p.x - q.x <= m
            /\ q.y - p.y <= m /\ p.y - q.y <= m

\* the operations that move a window from outside its own tick
ForcedMoveOps ==
    {"mouse_move", "resolve_pet_collisions", "on_set_instance_count", "on_set_scale",
     "constrain_to_screen"}

\* C32: after every forced move of a pet (drag, collision push, placement
\* of a spawned pet, scale change, constrain_to_screen) the float shadow of
\* every registered pet equals its window position.
C32_ShadowFollowsWindow ==
    last.op \in ForcedMoveOps =>
        \A i \in Registered : pet[i].float_x = pet[i].x /\ pet[i].float_y = pet[i].y

\* a collision pass pushed a pet and its shadow went with it
C32_Witness ==
    /\ last.op = "resolve_pet_collisions"
    /\ \E i \in Registered :
           /\ pet[i].x # prev[i].x
           /\ pet[i].float_x = pet[i].x /\ pet[i].float_y = pet[i].y
           /\ prev[i].float_x = prev[i].x

\* the number of consecutive ticks over which the displacement is compared
MaxTicks == 5

\* C33: over n consecutive auto_move_tick calls with unchanged velocity v
\* and no boundary contact the window moves by n * v to within one pixel on
\* each axis (positions in pixels, velocities in tenths of a pixel), so a
\* velocity below half a pixel per tick still moves the window.
C33_NoDriftOverTicks ==
    \A i \in Registered, n \in 1..MaxTicks :
        pet[i].float_x = pet[i].x /\ pet[i].float_y = pet[i].y =>
            LET r == auto_move_ticks(pet[i], n)
            IN  ~r.contact =>
                    /\ Abs(10 * (r.p.x - pet[i].x) - n * pet[i].velocity_x) <= 10
                    /\ Abs(10 * (r.p.y - pet[i].y) - n * pet[i].velocity_y) <= 10

\* the operations a user performs on one pet
LocalOps == {"mouse_press", "mouse_move", "mouse_release", "on_toggle_move_current"}

\* C34: a drag of a pet, or the move toggle of one pet, changes only that
\* pet: the manager's shared settings, the registry and every
\* other registered pet are as before.
C34_LocalActionsStayLocal ==
    [][last'.op \in LocalOps =>
          /\ mgr' = mgr
          /\ pets' = pets
          /\ \A j \in Registered : j # last'.arg => pet'[j] = pet[j]]_vars

\* one of two pets was stopped from its context menu and the other still moves
C34_Witness ==
    /\ last.op = "on_toggle_move_current"
    /\ Cardinality(Registered) = 2
    /\ ~pet[last.arg].state.move_enabled
    /\ \E j \in Registered : j # last.arg /\ pet[j].state.move_enabled
    /\ mgr.move_enabled

\* the window position and the stored velocity of p are those of q
SamePlace(p, q) ==
    /\ p.x = q.x /\ p.y = q.y
    /\ p.velocity_x = q.velocity_x /\ p.velocity_y = q.velocity_y

\* C35: a tick performs at most one behaviour, by the priority drag >
\* follow > rest > move: while is_dragging the window stays; otherwise while
\* follow_mouse only the follow step runs; otherwise while in_rest the
\* window stays; otherwise the autonomous step runs if move_enabled, and
\* nothing happens if not.
C35_TickPriority ==
    [][last'.op = "tick" =>
          LET p == pet[last'.arg]
              q == pet'[last'.arg]
              st == p.state
          IN  IF st.is_dragging THEN q = p
              ELSE IF st.follow_mouse
              THEN \E f \in {follow_cursor_tick(p, win.cursor)} :
                       /\ q.x = f.p.x /\ q.y = f.p.y
                       /\ q.velocity_x = p.velocity_x /\ q.velocity_y = p.velocity_y
                       /\ q.state = p.state
              ELSE IF st.in_rest THEN q = p
              ELSE IF st.move_enabled
              THEN \E vx \in {p.velocity_x} \cup TickVelocities,
                      vy \in {p.velocity_y} \cup TickVelocities :
                       q = auto_move_tick(p, vx, vy).p
              ELSE q = p]_vars

\* a tick of a dragged pet that follows the cursor and is away from it: the
\* window stayed where it was
C35_Witness ==
    /\ last.op = "tick"
    /\ last.branch = "drag"
    /\ pet[last.arg].state.is_dragging
    /\ pet[last.arg].state.follow_mouse
    /\ SamePlace(pet[last.arg], prev[last.arg])
    /\ follow_cursor_tick(pet[last.arg], win.cursor).moved

\* C36: on_set_instance_count terminates whatever the spawn factory does:
\* once the handler has entered its spawn loop it eventually leaves it.
C36_SpawnLoopTerminates == InSpawnLoop ~> ~InSpawnLoop

\* pet i is registered and rests
Resting(i) == i \in Registered /\ pet[i].state.in_rest

\* C37: every rest of a live pet ends: while it rests its rest-end timer is
\* armed, and with that timer firing a resting pet eventually rests no more.
C37_RestEnds ==
    \A i \in PetIds :
        /\ [](Resting(i) => pet[i].rest_end_timer)
        /\ Resting(i) ~> ~Resting(i)

\* a pet has just entered a rest and its rest-end timer is armed
C37_Witness ==
    /\ last.op \in {"try_enter_rest", "mouse_release", "on_toggle_move_current"}
    /\ Resting(last.arg)
    /\ pet[last.arg].rest_end_timer

\* C38: a rest-end timer left armed by an interrupted rest never ends a
\* later rest early: while a pet rests, its armed rest-end timer is the one
\* started at the entry of this rest, which runs the duration drawn for it.
C38_RestKeepsOwnTimer ==
    \A i \in Registered :
        pet[i].state.in_rest => pet[i].rest_end_timer /\ pet[i].rest_end_own

\* a rest entered while the timer of an interrupted rest was still armed
C38_Witness ==
    /\ last.op \in {"mouse_release", "try_enter_rest"}
    /\ last.rearmed
    /\ pet[last.arg].state.in_rest
    /\ pet[last.arg].rest_end_own

\* C39: a pet that follows a stationary cursor whose target lies inside the
\* available rectangle comes closer to the target with every tick, on each
\* axis not yet aligned, so that it reaches it after finitely many ticks;
\* at the target the follow step reports (FALSE, FALSE) and the window
\* stays.
C39_FollowApproachesTarget ==
    last.op = "tick" /\ last.branch = "follow" =>
        LET p == prev[last.arg]
            q == pet[last.arg]
            t == follow_target(p, win.cursor)
        IN  FrameInside(p, t) =>
                /\ p.x # t[1] => Abs(q.x - t[1]) < Abs(p.x - t[1])
                /\ p.y # t[2] => Abs(q.y - t[2]) < Abs(p.y - t[2])
                /\ (p.x = t[1] /\ p.y = t[2]) =>
                        ~last.moved /\ ~last.blocked /\ q.x = p.x /\ q.y = p.y

====
